---- MODULE Spec2Model ----
(***************************************************************************)
(* A model of the trading-rule pipeline: the single-position backtest     *)
(* loop of backtest.py, the structured-conditions -> DSL text -> AST      *)
(* path of dsl_generator.py and dsl_parser.py, and the AST -> signals     *)
(* evaluator of python_code_generator.py.                                 *)
(*                                                                         *)
(* Python floats are modelled as exact rationals <<numerator, denominator>>*)
(* in lowest terms with a positive denominator.                           *)
(***************************************************************************)
EXTENDS Integers, Sequences, FiniteSets, TLC

\* ------------------------------------------------------------------ bounds
\* Longest generated price series (bars).
MaxBars == 3
\* Generated close prices are 1..MaxPrice.
MaxPrice == 3

\* ------------------------------------------------------------- rationals
Abs(n) == IF n < 0 THEN -n ELSE n

RECURSIVE GCD(_, _)
GCD(a, b) == IF b = 0 THEN a ELSE GCD(b, a % b)

\* n/d in lowest terms, d > 0.
Norm(n, d) ==
    LET s == IF d < 0 THEN -1 ELSE 1
        g == GCD(Abs(n), Abs(d))
    IN  << (s * n) \div g, (s * d) \div g >>

R(n) == << n, 1 >>
Zero == R(0)

RMul(a, b) ==
    LET g1 == GCD(Abs(a[1]), b[2])
        g2 == GCD(Abs(b[1]), a[2])
    IN  IF a[1] = 0 \/ b[1] = 0 THEN Zero
        ELSE << (a[1] \div g1) * (b[1] \div g2), (a[2] \div g2) * (b[2] \div g1) >>

RInv(a) == IF a[1] < 0 THEN << -a[2], -a[1] >> ELSE << a[2], a[1] >>

RDiv(a, b) == RMul(a, RInv(b))

RAdd(a, b) ==
    LET g == GCD(a[2], b[2])
    IN  Norm(a[1] * (b[2] \div g) + b[1] * (a[2] \div g), (a[2] \div g) * b[2])

RNeg(a) == << -a[1], a[2] >>

RSub(a, b) == RAdd(a, RNeg(b))

RPos(a) == a[1] > 0

RLess(a, b) == RSub(a, b)[1] < 0

RMax(a, b) == IF RLess(a, b) THEN b ELSE a

RMin(a, b) == IF RLess(b, a) THEN b ELSE a

\* ---------------------------------------------------------------- inputs
\* backtest(df, signals, initial_cash=100000, commission=0.001)
DefaultInitialCash == 100000

\* Commission rates tried (the parameter is any rate in [0, 1)).
Commissions == { Zero, << 1, 4 >> }

\* The scenario series of the design document, next to the generated ones.
ScenarioSeries == { << 100, 110, 105, 120 >>, << 100, 105, 110 >> }

PriceSeries ==
    (UNION { [1..n -> 1..MaxPrice] : n \in 1..MaxBars }) \cup ScenarioSeries

VARIABLES
    close,          \* df['close'], one price per bar
    signals,        \* the rows of `signals` read so far: [entry, exit]
    initial_cash,
    commission,
    i,              \* number of bars processed by the main loop
    position,
    entry_price,
    entry_date,
    entry_index,
    cash,
    trades,
    equity_curve,
    result,         \* the returned metrics
    pc,             \* "loop", "open_position", "metrics", "done"
    log,            \* history: the loop's state after each bar's transition
    parsed_json,    \* the structured condition list given to generate_dsl
    dsl_text,       \* the rule text generate_dsl returned
    ast,            \* the AST parse_dsl returned for dsl_text
    edited,         \* a hand-edited rule text and what parse_dsl made of it
    dpc,            \* "json", "dsl", "ast", "reparsed", "ValueError", "SyntaxError"
    calls           \* history: what each call of the strategy function left

btVars == << close, signals, initial_cash, commission, i, position, entry_price,
             entry_date, entry_index, cash, trades, equity_curve, result, pc, log >>

dslVars == << parsed_json, dsl_text, ast, edited, dpc >>

evVars == << calls >>

None == "None"

Last(s) == s[Len(s)]

\* ------------------------------------------------------------- backtest
BtInit ==
    /\ close \in PriceSeries
    /\ signals = << >>
    /\ initial_cash = R(DefaultInitialCash)
    /\ commission \in Commissions
    /\ i = 0
    /\ position = Zero
    /\ entry_price = Zero
    /\ entry_date = None
    /\ entry_index = None
    /\ cash = initial_cash
    /\ trades = << >>
    /\ equity_curve = << >>
    /\ result = None
    /\ pc = "loop"
    /\ log = << >>

\* Lines 56-61 and 87-92: proceeds and P&L of closing `pos` at exit_price.
GrossProceeds(pos, exit_price) == RMul(pos, exit_price)

NetProceeds(pos, exit_price, comm) ==
    RSub(GrossProceeds(pos, exit_price), RMul(GrossProceeds(pos, exit_price), comm))

\* Mutant: the profit leaves the exit commission out.
Profit_BeforeCommission(pos, exit_price, ent_price, comm) ==
    RSub(GrossProceeds(pos, exit_price), RMul(pos, ent_price))

Profit(pos, exit_price, ent_price, comm) ==
    RSub(NetProceeds(pos, exit_price, comm), RMul(pos, ent_price))

\* Mutant: the price ratio taken the wrong way round.
ReturnPct_Swapped(exit_price, ent_price) ==
    RMul(RSub(RDiv(ent_price, exit_price), R(1)), R(100))

\* Line 61 and line 92.
ReturnPct(exit_price, ent_price) ==
    RMul(RSub(RDiv(exit_price, ent_price), R(1)), R(100))

\* Line 42: fully invest after commission.
PositionSize(c, price, comm) == RDiv(c, RMul(price, RAdd(R(1), comm)))

\* Lines 64-72: the trade appended by the exit branch (no "status" key).
ExitTrade(ent_date, exit_date, ent_price, exit_price, pos, comm) ==
    [ entry_date    |-> ent_date,
      exit_date     |-> exit_date,
      entry_price   |-> ent_price,
      exit_price    |-> exit_price,
      position_size |-> pos,
      profit        |-> Profit(pos, exit_price, ent_price, comm),
      return_pct    |-> ReturnPct(exit_price, ent_price) ]

\* Mutant: the end-of-run trade is priced at the entry price.
OpenAtEndTrade_EntryPriced(ent_date, exit_date, ent_price, exit_price, pos, comm) ==
    [ entry_date    |-> ent_date,
      exit_date     |-> exit_date,
      entry_price   |-> ent_price,
      exit_price    |-> ent_price,
      position_size |-> pos,
      profit        |-> RSub(RMul(pos, ent_price), RMul(pos, ent_price)),
      return_pct    |-> Zero,
      status        |-> "open_at_end" ]

\* Lines 94-103: the trade appended by the end-of-run close.
OpenAtEndTrade(ent_date, exit_date, ent_price, exit_price, pos, comm) ==
    [ entry_date    |-> ent_date,
      exit_date     |-> exit_date,
      entry_price   |-> ent_price,
      exit_price    |-> exit_price,
      position_size |-> pos,
      profit        |-> Profit(pos, exit_price, ent_price, comm),
      return_pct    |-> ReturnPct(exit_price, ent_price),
      status        |-> "open_at_end" ]

\* Mutant: equity is always the cash balance.
CurrentEquity_CashOnly(c, pos, price) == c

\* Line 79: mark-to-market equity after the bar's transition.
CurrentEquity(c, pos, price) == IF pos = Zero THEN c ELSE RMul(pos, price)

\* Mutants of the branch conditions: an entry that ignores an open position,
\* and an exit that does not require one.
EntryTaken_NoFlatCheck(entry_signal, pos) == entry_signal

ExitTaken_NoLongCheck(exit_signal, pos) == exit_signal

\* Line 40 and line 51: the two branch conditions.
EntryTaken(entry_signal, pos) == entry_signal /\ pos = Zero

ExitTaken(exit_signal, pos) == exit_signal /\ RPos(pos)

\* Lines 30-80: one iteration of the main loop, on bar i+1 (index i in the code).
Bar ==
    /\ pc = "loop"
    /\ i < Len(close)
    /\ \E entry_signal \in BOOLEAN, exit_signal \in BOOLEAN :
         LET date  == i
             price == R(close[i + 1])
         IN
         /\ signals' = Append(signals, [entry |-> entry_signal, exit |-> exit_signal])
         /\ IF EntryTaken(entry_signal, position)
            THEN /\ position' = PositionSize(cash, price, commission)
                 /\ entry_price' = price
                 /\ entry_date' = date
                 /\ entry_index' = i
                 /\ cash' = Zero
                 /\ trades' = trades
            ELSE IF ExitTaken(exit_signal, position)
            THEN /\ trades' = Append(trades,
                        ExitTrade(entry_date, date, entry_price, price, position, commission))
                 /\ cash' = NetProceeds(position, price, commission)
                 /\ position' = Zero
                 /\ entry_price' = Zero
                 /\ UNCHANGED << entry_date, entry_index >>
            ELSE UNCHANGED << position, entry_price, entry_date, entry_index, cash, trades >>
         /\ equity_curve' = Append(equity_curve, CurrentEquity(cash', position', price))
    /\ log' = Append(log, [ position |-> position', entry_price |-> entry_price',
                            entry_date |-> entry_date', cash |-> cash',
                            num_trades |-> Len(trades') ])
    /\ i' = i + 1
    /\ pc' = IF i + 1 = Len(close) THEN "open_position" ELSE "loop"
    /\ UNCHANGED << close, initial_cash, commission, result >>
    /\ UNCHANGED << dslVars, evVars >>

\* Lines 82-107: handle an open position at the end of the run.
HandleOpenPosition ==
    /\ pc = "open_position"
    /\ IF RPos(position)
       THEN LET exit_price == R(Last(close))
                exit_date  == Len(close) - 1
            IN
            /\ trades' = Append(trades,
                   OpenAtEndTrade(entry_date, exit_date, entry_price, exit_price,
                                  position, commission))
            /\ cash' = NetProceeds(position, exit_price, commission)
            /\ position' = Zero
            /\ equity_curve' = [equity_curve EXCEPT ![Len(equity_curve)] = cash']
       ELSE UNCHANGED << trades, cash, position, equity_curve >>
    /\ pc' = "metrics"
    /\ UNCHANGED << close, signals, initial_cash, commission, i, entry_price,
                    entry_date, entry_index, result, log >>
    /\ UNCHANGED << dslVars, evVars >>

\* Line 115: np.maximum.accumulate.
RECURSIVE RunningMax(_)
RunningMax(eq) ==
    IF Len(eq) <= 1 THEN eq
    ELSE LET prev == RunningMax(SubSeq(eq, 1, Len(eq) - 1))
         IN  Append(prev, RMax(Last(prev), Last(eq)))

\* Line 116: drawdown in percent, per bar.
Drawdown(eq) ==
    [ t \in 1..Len(eq) |-> RMul(RSub(RDiv(eq[t], RunningMax(eq)[t]), R(1)), R(100)) ]

\* Line 117: drawdown.min().
RECURSIVE SeqMin(_)
SeqMin(s) ==
    IF Len(s) = 1 THEN s[1] ELSE RMin(SeqMin(SubSeq(s, 1, Len(s) - 1)), Last(s))

\* Line 111.
TotalReturn(final_cash, init_cash) ==
    RMul(RDiv(RSub(final_cash, init_cash), init_cash), R(100))

\* float('inf')
Inf == "inf"

RECURSIVE RSum(_)
RSum(s) == IF Len(s) = 0 THEN Zero ELSE RAdd(RSum(SubSeq(s, 1, Len(s) - 1)), Last(s))

\* np.mean of a non-empty list.
RMean(s) == RDiv(RSum(s), R(Len(s)))

RIsNeg(p) == p[1] < 0

\* Lines 123-125.
Profits(ts) == [ k \in DOMAIN ts |-> ts[k].profit ]

WinningTrades(ts) == SelectSeq(Profits(ts), RPos)

LosingTrades(ts) == SelectSeq(Profits(ts), RIsNeg)

\* Line 127.
WinRate(ts) == RMul(RDiv(R(Len(WinningTrades(ts))), R(Len(ts))), R(100))

\* Lines 129-130.
GrossProfit(ts) == IF WinningTrades(ts) # << >> THEN RSum(WinningTrades(ts)) ELSE Zero

GrossLoss(ts) ==
    IF LosingTrades(ts) # << >>
    THEN << Abs(RSum(LosingTrades(ts))[1]), RSum(LosingTrades(ts))[2] >>
    ELSE Zero

\* Line 131.
ProfitFactor(ts) ==
    IF RPos(GrossLoss(ts)) THEN RDiv(GrossProfit(ts), GrossLoss(ts)) ELSE Inf

\* Lines 133-135.
AvgTradeReturn(ts) == RMean([ k \in DOMAIN ts |-> ts[k].return_pct ])

AvgWinningTrade(ts) == IF WinningTrades(ts) # << >> THEN RMean(WinningTrades(ts)) ELSE Zero

AvgLosingTrade(ts) == IF LosingTrades(ts) # << >> THEN RMean(LosingTrades(ts)) ELSE Zero

\* Lines 122-143: the trade statistics, all zero when there is no trade.
TradeStats(ts) ==
    IF Len(ts) > 0
    THEN [ win_rate          |-> WinRate(ts),
           profit_factor     |-> ProfitFactor(ts),
           avg_trade_return  |-> AvgTradeReturn(ts),
           avg_winning_trade |-> AvgWinningTrade(ts),
           avg_losing_trade  |-> AvgLosingTrade(ts),
           gross_profit      |-> GrossProfit(ts),
           gross_loss        |-> GrossLoss(ts) ]
    ELSE [ win_rate          |-> Zero,
           profit_factor     |-> Zero,
           avg_trade_return  |-> Zero,
           avg_winning_trade |-> Zero,
           avg_losing_trade  |-> Zero,
           gross_profit      |-> Zero,
           gross_loss        |-> Zero ]

\* Lines 109-168: the metrics and the returned record.  sharpe_ratio (lines
\* 145-150) is a square root of float statistics and is left out of the record.
Metrics ==
    /\ pc = "metrics"
    /\ result' = [ trades       |-> trades,
                   total_return |-> TotalReturn(cash, initial_cash),
                   max_drawdown |-> SeqMin(Drawdown(equity_curve)),
                   num_trades   |-> Len(trades),
                   stats        |-> TradeStats(trades),
                   equity_curve |-> equity_curve,
                   final_cash   |-> cash,
                   initial_cash |-> initial_cash ]
    /\ pc' = "done"
    /\ UNCHANGED << close, signals, initial_cash, commission, i, position, entry_price,
                    entry_date, entry_index, cash, trades, equity_curve, log >>
    /\ UNCHANGED << dslVars, evVars >>

\* ------------------------------------------------------------ characters
\* Text is a sequence of one-character strings.
Lower == << "a", "b", "c", "d", "e", "f", "g", "h", "i", "j", "k", "l", "m", "n", "o", "p", "q", "r", "s", "t", "u", "v", "w", "x", "y", "z" >>

Upper == << "A", "B", "C", "D", "E", "F", "G", "H", "I", "J", "K", "L", "M", "N", "O", "P", "Q", "R", "S", "T", "U", "V", "W", "X", "Y", "Z" >>

Digits == << "0", "1", "2", "3", "4", "5", "6", "7", "8", "9" >>

Range(f) == { f[k] : k \in DOMAIN f }

IndexOf(seq, c) == CHOOSE k \in DOMAIN seq : seq[k] = c

\* str.lower() and str.upper(), one character at a time.
LowerChar(c) == IF c \in Range(Upper) THEN Lower[IndexOf(Upper, c)] ELSE c

UpperChar(c) == IF c \in Range(Lower) THEN Upper[IndexOf(Lower, c)] ELSE c

LowerStr(s) == [ k \in DOMAIN s |-> LowerChar(s[k]) ]

UpperStr(s) == [ k \in DOMAIN s |-> UpperChar(s[k]) ]

DigitChars == Range(Digits)

DigitVal(c) == IndexOf(Digits, c) - 1

\* [a-zA-Z_] and [a-zA-Z0-9_]
NameStartChars == Range(Lower) \cup Range(Upper) \cup { "_" }

NameChars == NameStartChars \cup DigitChars

\* \s of the re module, over the characters texts are built from here.
SpaceChars == { " ", "\n", "\t" }

\* ----------------------------------------------------- regular expressions
\* A matcher maps a set P of positions in s (the index of the next character
\* to read) to the set of positions where a match started in P can end.  A
\* pattern anchored with ^...$ matches s iff Len(s) + 1 is reachable from 1.
ReLit(s, P, lit) ==
    { p + Len(lit) : p \in { q \in P : /\ q + Len(lit) - 1 <= Len(s)
                                       /\ SubSeq(s, q, q + Len(lit) - 1) = lit } }

\* A literal under re.IGNORECASE.
ReLitI(s, P, lit) ==
    { p + Len(lit) : p \in { q \in P : /\ q + Len(lit) - 1 <= Len(s)
                                       /\ LowerStr(SubSeq(s, q, q + Len(lit) - 1))
                                             = LowerStr(lit) } }

ReOne(s, P, C) == { p + 1 : p \in { q \in P : q <= Len(s) /\ s[q] \in C } }

ReStar(s, P, C) ==
    { q \in 1..(Len(s) + 1) : \E p \in P : p <= q /\ \A k \in p..(q - 1) : s[k] \in C }

RePlus(s, P, C) == ReStar(s, ReOne(s, P, C), C)

ReOpt(s, P, C) == P \cup ReOne(s, P, C)

FullMatch(s, P) == (Len(s) + 1) \in P

\* ---------------------------------------------------------- dsl_generator
VALID_FIELDS == { << "o", "p", "e", "n" >>, << "h", "i", "g", "h" >>, << "l", "o", "w" >>, << "c", "l", "o", "s", "e" >>, << "v", "o", "l", "u", "m", "e" >> }

VALID_OPERATORS == { << ">" >>, << "<" >>, << ">", "=" >>, << "<", "=" >>, << "=", "=" >>, << "!", "=" >>,
                     << "c", "r", "o", "s", "s", "_", "a", "b", "o", "v", "e" >>, << "c", "r", "o", "s", "s", "_", "b", "e", "l", "o", "w" >> }

VALID_LOGICAL == { << "A", "N", "D" >>, << "O", "R" >> }

IndicatorNames == { << "s", "m", "a" >>, << "e", "m", "a" >>, << "r", "s", "i" >>, << "m", "a", "c", "d" >>, << "b", "b", "a", "n", "d", "s" >>, << "a", "t", "r" >>,
                    << "a", "d", "x" >>, << "s", "t", "o", "c", "h" >>, << "p", "c", "t", "_", "c", "h", "a", "n", "g", "e" >> }

\* SHIFT_FUNC_PATTERN: ^[a-zA-Z_]+\s*\.\s*shift\(\s*\d+\s*\)$
is_shift(expr) ==
    LET p1 == RePlus(expr, { 1 }, NameStartChars)
        p2 == ReLit(expr, ReStar(expr, p1, SpaceChars), << "." >>)
        p3 == ReLit(expr, ReStar(expr, p2, SpaceChars), << "s", "h", "i", "f", "t", "(" >>)
        p4 == RePlus(expr, ReStar(expr, p3, SpaceChars), DigitChars)
        p5 == ReLit(expr, ReStar(expr, p4, SpaceChars), << ")" >>)
    IN  FullMatch(expr, p5)

\* MINMAX_FUNC_PATTERN: ^(min|max)\(\s*[a-zA-Z_]+\s*,\s*\d+\s*\)$
is_minmax(expr) ==
    LET p1 == ReLit(expr, { 1 }, << "m", "i", "n" >>) \cup ReLit(expr, { 1 }, << "m", "a", "x" >>)
        p2 == ReLit(expr, p1, << "(" >>)
        p3 == RePlus(expr, ReStar(expr, p2, SpaceChars), NameStartChars)
        p4 == ReLit(expr, ReStar(expr, p3, SpaceChars), << "," >>)
        p5 == RePlus(expr, ReStar(expr, p4, SpaceChars), DigitChars)
        p6 == ReLit(expr, ReStar(expr, p5, SpaceChars), << ")" >>)
    IN  FullMatch(expr, p6)

\* One round of the group (?:\s*,\s*\d+) of INDICATOR_PATTERN.
IndicatorArg(s, P) ==
    RePlus(s, ReStar(s, ReLit(s, ReStar(s, P, SpaceChars), << "," >>), SpaceChars), DigitChars)

\* The group repeated zero or more times.
RECURSIVE IndicatorArgs(_, _)
IndicatorArgs(s, P) ==
    LET Q == P \cup IndicatorArg(s, P)
    IN  IF Q = P THEN P ELSE IndicatorArgs(s, Q)

\* INDICATOR_PATTERN, re.IGNORECASE:
\* ^(sma|ema|rsi|macd|bbands|atr|adx|stoch|pct_change)
\*  \(\s*[a-zA-Z_][a-zA-Z0-9_]*(?:\s*,\s*\d+)*\s*\)$
is_indicator(expr) ==
    LET p1 == UNION { ReLitI(expr, { 1 }, n) : n \in IndicatorNames }
        p2 == ReLit(expr, p1, << "(" >>)
        p3 == ReOne(expr, ReStar(expr, p2, SpaceChars), NameStartChars)
        p4 == ReStar(expr, p3, NameChars)
        p5 == IndicatorArgs(expr, p4)
        p6 == ReLit(expr, ReStar(expr, p5, SpaceChars), << ")" >>)
    IN  FullMatch(expr, p6)

\* is_number: float(x) succeeds.  An operand given as a Python number is
\* represented by its str() text, which float() always reads back.  float()
\* takes optional blanks and sign, then inf/infinity/nan or a decimal with an
\* optional exponent.
is_number(x) ==
    LET p0 == ReOpt(x, ReStar(x, { 1 }, SpaceChars), { "+", "-" })
        m1 == RePlus(x, p0, DigitChars)
        m2 == ReStar(x, ReLit(x, m1, << "." >>), DigitChars)
        m3 == RePlus(x, ReLit(x, p0, << "." >>), DigitChars)
        m  == m1 \cup m2 \cup m3
        e  == RePlus(x, ReOpt(x, ReOne(x, m, { "e", "E" }), { "+", "-" }), DigitChars)
        sp == ReLitI(x, p0, << "i", "n", "f" >>) \cup ReLitI(x, p0, << "i", "n", "f", "i", "n", "i", "t", "y" >>)
                \cup ReLitI(x, p0, << "n", "a", "n" >>)
    IN  FullMatch(x, ReStar(x, m \cup e \cup sp, SpaceChars))

is_valid_operand(expr) ==
    \/ expr \in VALID_FIELDS
    \/ is_number(expr)
    \/ is_indicator(expr) \/ is_shift(expr) \/ is_minmax(expr)

\* validate_condition: the first failed check, or "" when all pass.
validate_condition(cond) ==
    IF ~is_valid_operand(cond.left) THEN "Invalid left operand"
    ELSE IF cond.operator \notin VALID_OPERATORS THEN "Invalid operator"
    ELSE IF ~is_valid_operand(cond.right) THEN "Invalid right operand"
    ELSE ""

Max(a, b) == IF a > b THEN a ELSE b

\* The errors validate_parsed_json collects for one block.
BlockErrors(block_name, block) ==
    LET conds == block.conditions
        ops   == block.operators
    IN  { << block_name, "too many logical operators", 0 >> :
             x \in { y \in { 0 } : Len(ops) > Max(0, Len(conds) - 1) } }
        \cup { << block_name, validate_condition(conds[k]), k >> :
                 k \in { j \in DOMAIN conds : validate_condition(conds[j]) # "" } }
        \cup { << block_name, "invalid logical operator", k >> :
                 k \in { j \in DOMAIN ops : UpperStr(ops[j]) \notin VALID_LOGICAL } }

\* validate_parsed_json: (ok, errors).
validate_parsed_json(parsed) ==
    LET errors == BlockErrors("entry", parsed.entry) \cup BlockErrors("exit", parsed.exit)
    IN  [ ok |-> errors = { }, errors |-> errors ]

cond_to_dsl(cond) ==
    LET op == IF cond.operator = << "c", "r", "o", "s", "s", "_", "a", "b", "o", "v", "e" >> THEN << "C", "R", "O", "S", "S", "_", "A", "B", "O", "V", "E" >>
              ELSE IF cond.operator = << "c", "r", "o", "s", "s", "_", "b", "e", "l", "o", "w" >> THEN << "C", "R", "O", "S", "S", "_", "B", "E", "L", "O", "W" >>
              ELSE cond.operator
    IN  cond.left \o << " " >> \o op \o << " " >> \o cond.right

\* ' '.join(tokens) for the conditions from index k on, each preceded by its
\* connector (the k-1'th of ops, upper-cased, or AND when the list is short).
RECURSIVE JoinFrom(_, _, _)
JoinFrom(conds, ops, k) ==
    IF k > Len(conds) THEN << >>
    ELSE << " " >> \o (IF k - 1 <= Len(ops) THEN UpperStr(ops[k - 1]) ELSE << "A", "N", "D" >>)
         \o << " " >> \o cond_to_dsl(conds[k]) \o JoinFrom(conds, ops, k + 1)

build_block(block) ==
    LET pad == << " ", " ", " ", " " >>
    IN  IF block.conditions = << >> THEN pad \o << "(", "F", "A", "L", "S", "E", ")" >>
        ELSE pad \o << "(" >> \o cond_to_dsl(block.conditions[1])
                 \o JoinFrom(block.conditions, block.operators, 2) \o << ")" >>

\* generate_dsl, for a parsed_json that validates.
generate_dsl(parsed) ==
    << "E", "N", "T", "R", "Y", ":", "\n" >> \o build_block(parsed.entry) \o << "\n", "\n", "E", "X", "I", "T", ":", "\n" >>
        \o build_block(parsed.exit) \o << "\n" >>

\* -------------------------------------------------------------- dsl_parser
\* The terminals of dsl_grammar.  Anonymous literals carry Lark's names.
OpAlternatives == << << ">", "=" >>, << "<", "=" >>, << ">" >>, << "<" >>, << "=", "=" >>, << "!", "=" >>,
                     << "C", "R", "O", "S", "S", "_", "A", "B", "O", "V", "E" >>, << "C", "R", "O", "S", "S", "_", "B", "E", "L", "O", "W" >>,
                     << "c", "r", "o", "s", "s", "_", "a", "b", "o", "v", "e" >>, << "c", "r", "o", "s", "s", "_", "b", "e", "l", "o", "w" >>,
                     << "r", "i", "s", "e", "_", "a", "b", "o", "v", "e" >>, << "d", "r", "o", "p", "_", "b", "e", "l", "o", "w" >> >>

LogicAlternatives == << << "A", "N", "D" >>, << "O", "R" >> >>

LiteralTerminals ==
    [ ENTRY |-> << "E", "N", "T", "R", "Y", ":" >>, EXIT |-> << "E", "X", "I", "T", ":" >>, LPAR |-> << "(" >>, RPAR |-> << ")" >>,
      DOT |-> << "." >>, COMMA |-> << "," >>, SHIFT |-> << "s", "h", "i", "f", "t" >> ]

\* %ignore " " and %ignore /\n+/
IgnoredChars == { " ", "\n" }

StartsWith(s, pos, lit) ==
    /\ pos + Len(lit) - 1 <= Len(s)
    /\ SubSeq(s, pos, pos + Len(lit) - 1) = lit

\* The first alternative of a terminal's alternation that matches at pos, or << >>.
FirstAlternative(s, pos, alts) ==
    IF \E k \in DOMAIN alts : StartsWith(s, pos, alts[k])
    THEN alts[CHOOSE k \in DOMAIN alts :
                 /\ StartsWith(s, pos, alts[k])
                 /\ \A j \in 1..(k - 1) : ~StartsWith(s, pos, alts[j])]
    ELSE << >>

\* End (exclusive) of the longest run of characters of C starting at pos.
RunEnd(s, pos, C) ==
    CHOOSE q \in pos..(Len(s) + 1) :
        /\ \A k \in pos..(q - 1) : s[k] \in C
        /\ q = Len(s) + 1 \/ s[q] \notin C

\* NAME: /[a-zA-Z_][a-zA-Z0-9_]*/ ; the end of the match at pos, or pos.
NameEnd(s, pos) ==
    IF pos <= Len(s) /\ s[pos] \in NameStartChars THEN RunEnd(s, pos, NameChars) ELSE pos

\* NUMBER: /\d+(\.\d+)?/ ; the end of the match at pos, or pos.
NumberEnd(s, pos) ==
    LET q == RunEnd(s, pos, DigitChars)
    IN  IF q = pos THEN pos
        ELSE IF q + 1 <= Len(s) /\ s[q] = "." /\ s[q + 1] \in DigitChars
             THEN RunEnd(s, q + 1, DigitChars)
             ELSE q

Token(type, s, from, to) == [ type |-> type, value |-> SubSeq(s, from, to - 1), next |-> to ]

\* A NAME match; its text FALSE is typed FALSE where FALSE is accepted too.
NameToken(s, q, to, accept) ==
    IF "FALSE" \in accept /\ SubSeq(s, q, to - 1) = << "F", "A", "L", "S", "E" >>
    THEN Token("FALSE", s, q, to)
    ELSE Token("NAME", s, q, to)

\* The accepted literal terminals that match at q.
LiteralsAt(s, q, accept) ==
    { t \in DOMAIN LiteralTerminals \cap accept : StartsWith(s, q, LiteralTerminals[t]) }

LiteralToken(s, q, lits) ==
    IF lits = { } THEN [ type |-> "ERROR", value |-> << >>, next |-> q ]
    ELSE Token(CHOOSE t \in lits : TRUE, s, q,
               q + Len(LiteralTerminals[CHOOSE t \in lits : TRUE]))

\* The token at q, where q is past the ignored characters.
LexAt(s, q, accept) ==
    IF q > Len(s) THEN [ type |-> "$END", value |-> << >>, next |-> q ]
    ELSE IF "NAME" \in accept /\ s[q] \in NameStartChars
    THEN NameToken(s, q, NameEnd(s, q), accept)
    ELSE IF "NUMBER" \in accept /\ s[q] \in DigitChars
    THEN Token("NUMBER", s, q, NumberEnd(s, q))
    ELSE IF "OP" \in accept /\ \E k \in DOMAIN OpAlternatives :
                                   StartsWith(s, q, OpAlternatives[k])
    THEN Token("OP", s, q, q + Len(FirstAlternative(s, q, OpAlternatives)))
    ELSE IF "LOGIC" \in accept /\ \E k \in DOMAIN LogicAlternatives :
                                      StartsWith(s, q, LogicAlternatives[k])
    THEN Token("LOGIC", s, q, q + Len(FirstAlternative(s, q, LogicAlternatives)))
    ELSE LiteralToken(s, q, LiteralsAt(s, q, accept))

\* The contextual lexer: the next token at or after pos, among the terminals
\* the parser accepts in its state.  Ignored characters are skipped; the end of
\* the text gives $END; a character no accepted terminal matches is an error.
Lex(s, pos, accept) == LexAt(s, RunEnd(s, pos, IgnoredChars), accept)

\* Terminals accepted at the start of an expr, of an operand, after a NAME
\* operand, and after an operand or expr.
ExprStart == { "LPAR", "NAME", "NUMBER", "FALSE" }

OperandStart == { "NAME", "NUMBER" }

AfterName == { "DOT", "LPAR", "OP", "LOGIC", "RPAR", "EXIT" }

AfterExpr == { "LOGIC", "RPAR", "EXIT" }

RECURSIVE DecValue(_)
DecValue(digs) ==
    IF digs = << >> THEN 0
    ELSE DecValue(SubSeq(digs, 1, Len(digs) - 1)) * 10 + DigitVal(digs[Len(digs)])

RECURSIVE Pow10(_)
Pow10(n) == IF n = 0 THEN 1 ELSE 10 * Pow10(n - 1)

\* DSLASTBuilder.NUMBER: float(token), of a token matching NUMBER.
NumberValue(txt) ==
    IF \E k \in DOMAIN txt : txt[k] = "."
    THEN LET d == CHOOSE k \in DOMAIN txt : txt[k] = "."
         IN  Norm(DecValue(SubSeq(txt, 1, d - 1) \o SubSeq(txt, d + 1, Len(txt))),
                  Pow10(Len(txt) - d))
    ELSE R(DecValue(txt))

\* int(x) of a non-negative float.
IntOf(r) == r[1] \div r[2]

Fail == [ ok |-> FALSE ]

Parsed(node, next) == [ ok |-> TRUE, node |-> node, next |-> next ]

\* DSLASTBuilder.operand over a NUMBER.
NumberNode(v) == [ type |-> "number", value |-> v ]

\* DSLASTBuilder.series
SeriesNode(name) == [ type |-> "series", value |-> name ]

\* DSLASTBuilder.shift_func
ShiftNode(field, n) == [ type |-> "shift", field |-> field, periods |-> IntOf(n) ]

\* DSLASTBuilder.function_call
FunctionCallNode(name, field, param) ==
    LET func_name == LowerStr(name)
    IN  IF func_name = << "m", "i", "n" >>
        THEN [ type |-> "min", field |-> field, window |-> IntOf(param) ]
        ELSE IF func_name = << "m", "a", "x" >>
        THEN [ type |-> "max", field |-> field, window |-> IntOf(param) ]
        ELSE [ type |-> "indicator", name |-> func_name, params |-> << field, param >> ]

\* DSLASTBuilder.condition and DSLASTBuilder.expr (three items).
BinaryOpNode(left, op, right) ==
    [ type |-> "binary_op", left |-> left, op |-> op, right |-> right ]

\* DSLASTBuilder.OP: str(token).lower()
OpValue(txt) == LowerStr(txt)

\* DSLASTBuilder.LOGIC: str(token)
LogicValue(txt) == txt

\* DSLASTBuilder.FALSE
FalseNode == [ type |-> "FALSE" ]

\* A run of terminals, each the only one accepted where it stands:
\* [ok, values, next].
RECURSIVE MatchSeq(_, _, _)
RECURSIVE MatchSeqFrom(_, _, _)

MatchSeqPrepend(v, m) ==
    IF m.ok THEN [ ok |-> TRUE, values |-> << v >> \o m.values, next |-> m.next ]
    ELSE Fail

MatchSeqFrom(s, types, t) ==
    IF t.type # Head(types) THEN Fail
    ELSE MatchSeqPrepend(t.value, MatchSeq(s, t.next, Tail(types)))

MatchSeq(s, pos, types) ==
    IF types = << >> THEN [ ok |-> TRUE, values |-> << >>, next |-> pos ]
    ELSE MatchSeqFrom(s, types, Lex(s, pos, { Head(types) }))

ShiftResult(name, m) ==
    IF m.ok THEN Parsed(ShiftNode(name, NumberValue(m.values[3])), m.next) ELSE Fail

\* shift_func: NAME "." "shift" "(" NUMBER ")", from the token after the dot.
ParseShiftTail(s, name, pos) ==
    ShiftResult(name, MatchSeq(s, pos, << "SHIFT", "LPAR", "NUMBER", "RPAR" >>))

CallResult(name, m) ==
    IF m.ok
    THEN Parsed(FunctionCallNode(name, m.values[1], NumberValue(m.values[3])), m.next)
    ELSE Fail

\* function_call: NAME "(" NAME "," NUMBER ")", from the token after the "(".
ParseCallTail(s, name, pos) ==
    CallResult(name, MatchSeq(s, pos, << "NAME", "COMMA", "NUMBER", "RPAR" >>))

\* A NAME operand, by the token that follows it.
OperandAfterName(s, t, la) ==
    IF la.type = "DOT" THEN ParseShiftTail(s, t.value, la.next)
    ELSE IF la.type = "LPAR" THEN ParseCallTail(s, t.value, la.next)
    ELSE IF la.type = "ERROR" THEN Fail
    ELSE Parsed(SeriesNode(t.value), t.next)

OperandFrom(s, t) ==
    IF t.type = "NUMBER" THEN Parsed(NumberNode(NumberValue(t.value)), t.next)
    ELSE IF t.type # "NAME" THEN Fail
    ELSE OperandAfterName(s, t, Lex(s, t.next, AfterName))

\* operand: shift_func | function_call | series | NUMBER
ParseOperand(s, pos) == OperandFrom(s, Lex(s, pos, OperandStart))

ConditionRight(left, op, right) ==
    IF ~right.ok THEN Fail
    ELSE Parsed(BinaryOpNode(left, op, right.node), right.next)

ConditionOp(s, left, op) ==
    IF op.type # "OP" THEN Fail
    ELSE ConditionRight(left, OpValue(op.value), ParseOperand(s, op.next))

ConditionLeft(s, left) ==
    IF ~left.ok THEN Fail
    ELSE ConditionOp(s, left.node, Lex(s, left.next, { "OP" }))

\* condition: operand OP operand
ParseCondition(s, pos) == ConditionLeft(s, ParseOperand(s, pos))

\* Mutant: the chain combined left to right, ((a L1 b) L2 c).
RECURSIVE ReduceChain_LeftToRight(_, _)
ReduceChain_LeftToRight(items, logics) ==
    IF Len(items) = 1 THEN items[1]
    ELSE BinaryOpNode(ReduceChain_LeftToRight(SubSeq(items, 1, Len(items) - 1),
                                              SubSeq(logics, 1, Len(logics) - 1)),
                      logics[Len(logics)], items[Len(items)])

\* ?expr: expr LOGIC expr, parsed by Lark's LALR(1) parser.  The rule is
\* ambiguous; Lark resolves the shift/reduce conflict on LOGIC as a shift, so
\* a chain e1 L1 e2 L2 e3 is shifted whole and reduced from the right.
RECURSIVE ReduceChain(_, _)
ReduceChain(items, logics) ==
    IF Len(items) = 1 THEN items[1]
    ELSE BinaryOpNode(items[1], logics[1],
                      ReduceChain(SubSeq(items, 2, Len(items)),
                                  SubSeq(logics, 2, Len(logics))))

RECURSIVE ParseChain(_, _)
RECURSIVE ChainFirst(_, _)
RECURSIVE ChainNext(_, _, _)
RECURSIVE ParsePrimary(_, _)
RECURSIVE PrimaryFrom(_, _, _)

PrimaryClose(node, rpar) ==
    IF rpar.type # "RPAR" THEN Fail ELSE Parsed(node, rpar.next)

PrimaryInner(s, inner) ==
    IF ~inner.ok THEN Fail
    ELSE PrimaryClose(ReduceChain(inner.items, inner.logics),
                      Lex(s, inner.next, AfterExpr))

PrimaryFrom(s, pos, t) ==
    IF t.type = "LPAR" THEN PrimaryInner(s, ParseChain(s, t.next))
    ELSE IF t.type = "FALSE" THEN Parsed(FalseNode, t.next)
    ELSE IF t.type \in OperandStart THEN ParseCondition(s, pos)
    ELSE Fail

\* ?expr: ... | "(" expr ")" | condition | FALSE
ParsePrimary(s, pos) == PrimaryFrom(s, pos, Lex(s, pos, ExprStart))

ChainRest(node, logic, rest) ==
    IF ~rest.ok THEN Fail
    ELSE [ ok |-> TRUE, items |-> << node >> \o rest.items,
           logics |-> << logic >> \o rest.logics, next |-> rest.next ]

ChainNext(s, first, la) ==
    IF la.type = "ERROR" THEN Fail
    ELSE IF la.type # "LOGIC"
    THEN [ ok |-> TRUE, items |-> << first.node >>, logics |-> << >>,
           next |-> first.next ]
    ELSE ChainRest(first.node, LogicValue(la.value), ParseChain(s, la.next))

ChainFirst(s, first) ==
    IF ~first.ok THEN Fail ELSE ChainNext(s, first, Lex(s, first.next, AfterExpr))

\* The items and connectors of a chain  primary (LOGIC primary)* .
ParseChain(s, pos) == ChainFirst(s, ParsePrimary(s, pos))

ExprOf(chain) ==
    IF chain.ok THEN Parsed(ReduceChain(chain.items, chain.logics), chain.next)
    ELSE Fail

\* expr
ParseExpr(s, pos) == ExprOf(ParseChain(s, pos))

\* DSLASTBuilder.entry and DSLASTBuilder.exit
BlockRoots(node) == IF node # FalseNode THEN << node >> ELSE << >>

\* DSLASTBuilder.start
StartAst(entry_roots, exit_roots) ==
    [ ok |-> TRUE, ast |-> [ entry |-> entry_roots, exit |-> exit_roots ] ]

StartEnd(entry_roots, exit_roots, t) ==
    IF t.type # "$END" THEN Fail ELSE StartAst(entry_roots, exit_roots)

StartExit(text, entry_roots, x) ==
    IF ~x.ok THEN Fail
    ELSE StartEnd(entry_roots, BlockRoots(x.node), Lex(text, x.next, AfterExpr))

StartAfterEntry(text, entry_roots, t) ==
    IF t.type = "$END" THEN StartAst(entry_roots, << >>)
    ELSE IF t.type # "EXIT" THEN Fail
    ELSE StartExit(text, entry_roots, ParseExpr(text, t.next))

StartEntry(text, e) ==
    IF ~e.ok THEN Fail
    ELSE StartAfterEntry(text, BlockRoots(e.node), Lex(text, e.next, AfterExpr))

StartFrom(text, t) ==
    IF t.type = "$END" THEN StartAst(<< >>, << >>)
    ELSE IF t.type = "ENTRY" THEN StartEntry(text, ParseExpr(text, t.next))
    ELSE IF t.type = "EXIT" THEN StartExit(text, << >>, ParseExpr(text, t.next))
    ELSE Fail

\* parse_dsl: start: entry? exit? ; [ok |-> FALSE] stands for the SyntaxError.
parse_dsl(text) == StartFrom(text, Lex(text, 1, { "ENTRY", "EXIT" }))

\* ------------------------------------------------------ the rule pipeline
\* Longest condition list of a block.
MaxConds == 3

Cond(l, o, r) == [ left |-> l, operator |-> o, right |-> r ]

\* The conditions blocks are built from: every operand form of
\* is_valid_operand, and one condition the validator rejects.
CondPool ==
    { Cond(<< "c", "l", "o", "s", "e" >>, << ">" >>, << "5" >>),
      Cond(<< "s", "m", "a", "(", "c", "l", "o", "s", "e", ",", "5", ")" >>, << "c", "r", "o", "s", "s", "_", "a", "b", "o", "v", "e" >>, << "c", "l", "o", "s", "e", ".", "s", "h", "i", "f", "t", "(", "1", ")" >>),
      Cond(<< "v", "o", "l", "u", "m", "e" >>, << "<", "=" >>, << "-", "5" >>),
      Cond(<< "r", "s", "i", "(", "c", "l", "o", "s", "e", ")" >>, << "<" >>, << "2", ".", "5" >>),
      Cond(<< "m", "a", "c", "d", "(", "c", "l", "o", "s", "e", ",", "5", ")" >>, << "c", "r", "o", "s", "s", "_", "b", "e", "l", "o", "w" >>, << "m", "a", "x", "(", "h", "i", "g", "h", ",", "5", ")" >>),
      Cond(<< "p", "r", "i", "c", "e" >>, << "=", ">" >>, << "5" >>) }

\* Connectors as the front-end may give them.
LogicalInputs == { << "A", "N", "D" >>, << "o", "r" >> }

EntryBlocks ==
    { [ conditions |-> c, operators |-> o ] :
        c \in UNION { [1..n -> CondPool] : n \in 0..MaxConds },
        o \in UNION { [1..m -> LogicalInputs] : m \in 0..(MaxConds - 1) } }

ExitBlocks ==
    { [ conditions |-> << >>, operators |-> << >> ],
      [ conditions |-> << Cond(<< "c", "l", "o", "s", "e" >>, << "<" >>, << "s", "m", "a", "(", "c", "l", "o", "s", "e", ",", "5", ")" >>) >>,
        operators |-> << >> ] }

\* Positions in txt where the keyword kw stands as a blank-delimited word.
KeywordAt(txt, kw) ==
    { p \in 2..(Len(txt) - Len(kw)) :
        /\ StartsWith(txt, p, kw)
        /\ txt[p - 1] = " "
        /\ txt[p + Len(kw)] = " " }

Keywords == { << "A", "N", "D" >>, << "O", "R" >>, << "C", "R", "O", "S", "S", "_", "A", "B", "O", "V", "E" >>, << "C", "R", "O", "S", "S", "_", "B", "E", "L", "O", "W" >> }

Capitalize(s) == [ k \in DOMAIN s |-> IF k = 1 THEN UpperChar(s[k]) ELSE LowerChar(s[k]) ]

\* The case variants tried for a keyword: and, And, cross_above, Cross_above.
CaseVariants(kw) == { LowerStr(kw), Capitalize(kw) }

ReplaceAt(txt, p, old, new) ==
    SubSeq(txt, 1, p - 1) \o new \o SubSeq(txt, p + Len(old), Len(txt))

EmptyAst == [ entry |-> << >>, exit |-> << >> ]

NoEdit == [ text |-> << >>, keyword |-> << >>, ok |-> FALSE, ast |-> EmptyAst ]

DslIdle ==
    /\ parsed_json = None
    /\ dsl_text = << >>
    /\ ast = EmptyAst
    /\ edited = NoEdit
    /\ dpc = "idle"

BtIdle ==
    /\ close = << >>
    /\ signals = << >>
    /\ initial_cash = Zero
    /\ commission = Zero
    /\ i = 0
    /\ position = Zero
    /\ entry_price = Zero
    /\ entry_date = None
    /\ entry_index = None
    /\ cash = Zero
    /\ trades = << >>
    /\ equity_curve = << >>
    /\ result = None
    /\ pc = "idle"
    /\ log = << >>

DslInit ==
    /\ parsed_json \in [ entry : EntryBlocks, exit : ExitBlocks ]
    /\ dsl_text = << >>
    /\ ast = EmptyAst
    /\ edited = NoEdit
    /\ dpc = "json"

\* main.py step 3: generate_dsl, which validates first and raises ValueError.
GenerateDsl ==
    /\ dpc = "json"
    /\ IF validate_parsed_json(parsed_json).ok
       THEN /\ dsl_text' = generate_dsl(parsed_json)
            /\ dpc' = "dsl"
       ELSE /\ dsl_text' = dsl_text
            /\ dpc' = "ValueError"
    /\ UNCHANGED << parsed_json, ast, edited >>
    /\ UNCHANGED << btVars, evVars >>

\* main.py step 4: parse_dsl on the generated text.
ParseDsl ==
    /\ dpc = "dsl"
    /\ LET r == parse_dsl(dsl_text)
       IN  IF r.ok
           THEN /\ ast' = r.ast
                /\ dpc' = "ast"
           ELSE /\ ast' = ast
                /\ dpc' = "SyntaxError"
    /\ UNCHANGED << parsed_json, dsl_text, edited >>
    /\ UNCHANGED << btVars, evVars >>

EditResult(txt, v, r) ==
    [ text |-> txt, keyword |-> v, ok |-> r.ok, ast |-> IF r.ok THEN r.ast ELSE EmptyAst ]

\* parse_dsl on a rule text written by hand: the generated text with one
\* operator keyword in another letter case.
ParseRecased ==
    /\ dpc = "ast"
    /\ \E kw \in Keywords :
         \E p \in KeywordAt(dsl_text, kw) :
           \E v \in CaseVariants(kw) :
             edited' = EditResult(ReplaceAt(dsl_text, p, kw, v), v,
                                  parse_dsl(ReplaceAt(dsl_text, p, kw, v)))
    /\ dpc' = "reparsed"
    /\ UNCHANGED << parsed_json, dsl_text, ast >>
    /\ UNCHANGED << btVars, evVars >>

\* -------------------------------------------------- python_code_generator
\* A pandas Series is a sequence with one element per bar: rationals and NaN
\* for numbers, booleans for conditions. A value is a Series or a scalar.
\* NaN is written 0/0.
NaN == << 0, 0 >>

SeriesVal(data) == [ kind |-> "series", data |-> data ]

ScalarVal(x) == [ kind |-> "scalar", data |-> x ]

IsSeries(v) == v.kind = "series"

\* Series.shift(n)
ShiftData(s, n) == [ t \in 1..Len(s) |-> IF t - n >= 1 THEN s[t - n] ELSE NaN ]

HasNaN(s) == \E k \in DOMAIN s : s[k] = NaN

RECURSIVE SeqMax(_)
SeqMax(s) ==
    IF Len(s) = 1 THEN s[1] ELSE RMax(SeqMax(SubSeq(s, 1, Len(s) - 1)), Last(s))

\* The aggregate of one full window.
WindowAgg(how, win) ==
    CASE how = "mean" -> RMean(win)
      [] how = "min"  -> SeqMin(win)
      [] how = "max"  -> SeqMax(win)

\* Series.rolling(w).mean() / .min() / .max(): NaN until the window holds w
\* observations, none of them NaN.
RollingAt(s, w, how, t) ==
    IF t < w THEN NaN
    ELSE IF HasNaN(SubSeq(s, t - w + 1, t)) THEN NaN
    ELSE WindowAgg(how, SubSeq(s, t - w + 1, t))

Rolling(s, w, how) == [ t \in 1..Len(s) |-> RollingAt(s, w, how, t) ]

\* Lines 6-8.
compute_sma(col, window) == Rolling(col, window, "mean")

\* Lines 11-13: ewm(span=window, adjust=False).mean(),
\* y[0] = x[0], y[t] = (1 - a) * y[t-1] + a * x[t] with a = 2 / (window + 1).
RECURSIVE EwmAt(_, _, _)
EwmAt(col, window, t) ==
    IF t = 1 THEN col[1]
    ELSE RAdd(RMul(RSub(R(1), Norm(2, window + 1)), EwmAt(col, window, t - 1)),
              RMul(Norm(2, window + 1), col[t]))

compute_ema(col, window) == [ t \in 1..Len(col) |-> EwmAt(col, window, t) ]

\* Series.diff()
Diff(col) == [ t \in 1..Len(col) |-> IF t = 1 THEN NaN ELSE RSub(col[t], col[t - 1]) ]

\* delta.clip(lower=0) and -delta.clip(upper=0)
Gain(delta) ==
    [ t \in DOMAIN delta |-> IF delta[t] = NaN THEN NaN ELSE RMax(delta[t], Zero) ]

Loss(delta) ==
    [ t \in DOMAIN delta |-> IF delta[t] = NaN THEN NaN ELSE RNeg(RMin(delta[t], Zero)) ]

\* Lines 23-24 on one bar: rs = avg_gain / avg_loss is inf (x/0) or NaN (0/0)
\* when avg_loss is 0, and 100 - 100 / (1 + inf) is 100.
RsiAt(avg_gain, avg_loss) ==
    IF avg_gain = NaN \/ avg_loss = NaN THEN NaN
    ELSE IF avg_loss = Zero THEN (IF avg_gain = Zero THEN NaN ELSE R(100))
    ELSE RSub(R(100), RDiv(R(100), RAdd(R(1), RDiv(avg_gain, avg_loss))))

\* Lines 16-25.
compute_rsi(col, window) ==
    [ t \in 1..Len(col) |->
        RsiAt(RollingAt(Gain(Diff(col)), window, "mean", t),
              RollingAt(Loss(Diff(col)), window, "mean", t)) ]

\* Lines 28-35, over a column without zeros.
PctAt(x, shifted) ==
    IF shifted = NaN THEN NaN ELSE RMul(RDiv(RSub(x, shifted), shifted), R(100))

compute_pct_change(col, window) ==
    [ t \in 1..Len(col) |-> PctAt(col[t], ShiftData(col, window)[t]) ]

SupportedIndicators == { << "s", "m", "a" >>, << "e", "m", "a" >>, << "r", "s", "i" >>, << "p", "c", "t", "_", "c", "h", "a", "n", "g", "e" >> }

\* Lines 81-88: the computation chosen by the indicator's name.
ComputeIndicator(name, col, window) ==
    CASE name = << "s", "m", "a" >>        -> compute_sma(col, window)
      [] name = << "e", "m", "a" >>        -> compute_ema(col, window)
      [] name = << "r", "s", "i" >>        -> compute_rsi(col, window)
      [] name = << "p", "c", "t", "_", "c", "h", "a", "n", "g", "e" >> -> compute_pct_change(col, window)

\* A float comparison on one bar: anything compared with NaN is False, except
\* != which is True.
Compare(op, x, y) ==
    IF x = NaN \/ y = NaN THEN op = << "!", "=" >>
    ELSE CASE op = << ">" >>  -> RLess(y, x)
           [] op = << "<" >>  -> RLess(x, y)
           [] op = << ">", "=" >> -> ~RLess(x, y)
           [] op = << "<", "=" >> -> ~RLess(y, x)
           [] op = << "=", "=" >> -> x = y
           [] op = << "!", "=" >> -> x # y

\* The element of a value on bar t: a scalar is broadcast.
At(v, t) == IF IsSeries(v) THEN v.data[t] ELSE v.data

\* The bars of an elementwise result: those of the Series operand.
BarsOf(a, b) == IF IsSeries(a) THEN DOMAIN a.data ELSE DOMAIN b.data

\* left <op> right, elementwise when either side is a Series.
CompareVals(op, a, b) ==
    IF IsSeries(a) \/ IsSeries(b)
    THEN SeriesVal([ t \in BarsOf(a, b) |-> Compare(op, At(a, t), At(b, t)) ])
    ELSE ScalarVal(Compare(op, a.data, b.data))

\* left & right
AndVals(a, b) ==
    IF IsSeries(a) \/ IsSeries(b)
    THEN SeriesVal([ t \in BarsOf(a, b) |-> At(a, t) /\ At(b, t) ])
    ELSE ScalarVal(a.data /\ b.data)

\* left | right
OrVals(a, b) ==
    IF IsSeries(a) \/ IsSeries(b)
    THEN SeriesVal([ t \in BarsOf(a, b) |-> At(a, t) \/ At(b, t) ])
    ELSE ScalarVal(a.data \/ b.data)

\* Lines 122-123, 129-130: x.shift(1) if isinstance(x, pd.Series) else x
Prev(v) == IF IsSeries(v) THEN SeriesVal(ShiftData(v.data, 1)) ELSE v

\* Mutant: the previous bar must be strictly above.
CrossBelow_StrictPrev(left, right) ==
    AndVals(CompareVals(<< ">" >>, Prev(left), Prev(right)), CompareVals(<< "<" >>, left, right))

\* Lines 121-126.
CrossAbove(left, right) ==
    AndVals(CompareVals(<< "<", "=" >>, Prev(left), Prev(right)), CompareVals(<< ">" >>, left, right))

\* Lines 128-133.
CrossBelow(left, right) ==
    AndVals(CompareVals(<< ">", "=" >>, Prev(left), Prev(right)), CompareVals(<< "<" >>, left, right))

ComparisonOps == { << ">" >>, << "<" >>, << ">", "=" >>, << "<", "=" >>, << "=", "=" >>, << "!", "=" >> }

\* The operators the binary_op branch knows (lines 101-133).
SupportedOps == ComparisonOps \cup { << "a", "n", "d" >>, << "o", "r" >>, << "c", "r", "o", "s", "s", "_", "a", "b", "o", "v", "e" >>, << "c", "r", "o", "s", "s", "_", "b", "e", "l", "o", "w" >> }

\* Lines 101-133, for a supported operator.
BinaryOp(op, left, right) ==
    CASE op = << "a", "n", "d" >>         -> AndVals(left, right)
      [] op = << "o", "r" >>          -> OrVals(left, right)
      [] op \in ComparisonOps -> CompareVals(op, left, right)
      [] op = << "c", "r", "o", "s", "s", "_", "a", "b", "o", "v", "e" >> -> CrossAbove(left, right)
      [] op = << "c", "r", "o", "s", "s", "_", "b", "e", "l", "o", "w" >> -> CrossBelow(left, right)

\* ---- exceptions and the state threaded through one strategy(df) call
NoError == [ type |-> "None", msg |-> "", arg |-> << >> ]

KeyError(column) == [ type |-> "KeyError", msg |-> "", arg |-> column ]

ValueError(msg, arg) == [ type |-> "ValueError", msg |-> msg, arg |-> arg ]

\* cache: the dict of line 149, as a set of [key, value] items;
\* computed: history of the (name, field, window) computed in this call;
\* returned: history of what indicator nodes returned in this call.
EvalState(cache, computed, returned, err) ==
    [ cache |-> cache, computed |-> computed, returned |-> returned, err |-> err ]

Ok(val, st) == [ val |-> val, st |-> st ]

Raise(st, err) ==
    [ val |-> ScalarVal(FALSE), st |-> EvalState(st.cache, st.computed, st.returned, err) ]

Failed(r) == r.st.err.type # "None"

InCache(cache, key) == \E item \in cache : item.key = key

CacheGet(cache, key) == (CHOOSE item \in cache : item.key = key).value

\* str(n) of a non-negative int.
RECURSIVE IntStr(_)
IntStr(n) == IF n < 10 THEN << Digits[n + 1] >> ELSE IntStr(n \div 10) \o << Digits[(n % 10) + 1] >>

\* Line 78: f"{name}_{source}_{window}"
CacheKey(name, source, window) == name \o << "_" >> \o source \o << "_" >> \o IntStr(window)

\* The bars of a frame: df.index.
Bars(df) == DOMAIN df[CHOOSE c \in DOMAIN df : TRUE]

\* df[column] as a float Series, or KeyError.
Column(df, column) == [ t \in DOMAIN df[column] |-> R(df[column][t]) ]

ReadColumn(df, column, st) ==
    IF column \in DOMAIN df THEN Ok(SeriesVal(Column(df, column)), st)
    ELSE Raise(st, KeyError(column))

\* Line 92, and the histories: an indicator node returns `value`.
ReturnIndicator(name, source, window, value, st) ==
    Ok(SeriesVal(value),
       EvalState(st.cache, st.computed,
                 Append(st.returned, [ name |-> name, source |-> source,
                                       window |-> window, value |-> value ]),
                 st.err))

\* Lines 81-88: cache[key] = compute_...(df, source, window)
StoreIndicator(name, source, window, value, st) ==
    ReturnIndicator(name, source, window, value,
        EvalState(st.cache \cup { [ key |-> CacheKey(name, source, window), value |-> value ] },
                  Append(st.computed, << name, source, window >>),
                  st.returned, st.err))

\* Mutant: an unknown indicator quietly evaluates to an all-NaN Series.
EvalIndicator_Silent(name, source, window, df, st) ==
    IF InCache(st.cache, CacheKey(name, source, window))
    THEN ReturnIndicator(name, source, window,
                         CacheGet(st.cache, CacheKey(name, source, window)), st)
    ELSE IF name \notin SupportedIndicators
    THEN Ok(SeriesVal([ t \in Bars(df) |-> NaN ]), st)
    ELSE IF source \notin DOMAIN df
    THEN Raise(st, KeyError(source))
    ELSE StoreIndicator(name, source, window,
                        ComputeIndicator(name, Column(df, source), window), st)

\* Lines 73-92.
EvalIndicator(name, source, window, df, st) ==
    IF InCache(st.cache, CacheKey(name, source, window))
    THEN ReturnIndicator(name, source, window,
                         CacheGet(st.cache, CacheKey(name, source, window)), st)
    ELSE IF name \notin SupportedIndicators
    THEN Raise(st, ValueError("Unsupported indicator", name))
    ELSE IF source \notin DOMAIN df
    THEN Raise(st, KeyError(source))
    ELSE StoreIndicator(name, source, window,
                        ComputeIndicator(name, Column(df, source), window), st)

\* Lines 56-71: df[field].shift(n), df[field].rolling(w).min() / .max()
ShiftOf(r, n) == IF Failed(r) THEN r ELSE Ok(SeriesVal(ShiftData(r.val.data, n)), r.st)

RollingOf(r, w, how) ==
    IF Failed(r) THEN r ELSE Ok(SeriesVal(Rolling(r.val.data, w, how)), r.st)

\* Lines 98-135, once both sides are evaluated.
BinaryResult(op, left, right, st) ==
    IF op \in SupportedOps THEN Ok(BinaryOp(op, left, right), st)
    ELSE Raise(st, ValueError("Unsupported operator", op))

ApplyBinary(node, l, r) ==
    IF Failed(r) THEN r ELSE BinaryResult(LowerStr(node.op), l.val, r.val, r.st)

\* Lines 40-137: generate_expression(node, df, cache), as [val, st].
RECURSIVE generate_expression(_, _, _)

EvalRight(node, df, l) ==
    IF Failed(l) THEN l ELSE ApplyBinary(node, l, generate_expression(node.right, df, l.st))

generate_expression(node, df, st) ==
    CASE node.type = "series"    -> ReadColumn(df, node.value, st)
      [] node.type = "number"    -> Ok(ScalarVal(node.value), st)
      [] node.type = "shift"     -> ShiftOf(ReadColumn(df, node.field, st), node.periods)
      [] node.type = "min"       -> RollingOf(ReadColumn(df, node.field, st), node.window, "min")
      [] node.type = "max"       -> RollingOf(ReadColumn(df, node.field, st), node.window, "max")
      [] node.type = "indicator" ->
            EvalIndicator(node.name, node.params[1], IntOf(node.params[2]), df, st)
      [] node.type = "binary_op" -> EvalRight(node, df, generate_expression(node.left, df, st))
      [] OTHER -> Raise(st, ValueError("Unknown AST node type", << node.type >>))

\* Lines 160-164, 177-181: the conditions of a block, evaluated in order.
RECURSIVE EvalList(_, _, _, _, _)

EvalListNext(nodes, df, k, vals, r) ==
    IF Failed(r) THEN [ vals |-> vals, st |-> r.st ]
    ELSE EvalList(nodes, df, r.st, k + 1, Append(vals, r.val))

EvalList(nodes, df, st, k, vals) ==
    IF k > Len(nodes) THEN [ vals |-> vals, st |-> st ]
    ELSE EvalListNext(nodes, df, k, vals, generate_expression(nodes[k], df, st))

\* np.logical_and.reduce / np.logical_or.reduce over conditions that are all
\* Series or all scalars.
\* Mutant: every block is reduced with logical_and.
RECURSIVE ReduceVals_AllAnd(_, _)
ReduceVals_AllAnd(how, vals) ==
    IF Len(vals) = 1 THEN vals[1]
    ELSE AndVals(ReduceVals_AllAnd(how, SubSeq(vals, 1, Len(vals) - 1)), Last(vals))

RECURSIVE ReduceVals(_, _)
ReduceVals(how, vals) ==
    IF Len(vals) = 1 THEN vals[1]
    ELSE IF how = "and" THEN AndVals(ReduceVals(how, SubSeq(vals, 1, Len(vals) - 1)), Last(vals))
    ELSE OrVals(ReduceVals(how, SubSeq(vals, 1, Len(vals) - 1)), Last(vals))

Reduced(how, l) ==
    IF Failed(l) THEN Raise(l.st, l.st.err) ELSE Ok(ReduceVals(how, l.vals), l.st)

\* Lines 153-167 (how = "and") and 170-184 (how = "or").
EvalBlock(nodes, df, st, how) ==
    IF nodes = << >> THEN Ok(ScalarVal(FALSE), st)
    ELSE IF Len(nodes) = 1 THEN generate_expression(nodes[1], df, st)
    ELSE Reduced(how, EvalList(nodes, df, st, 1, << >>))

\* ast.get(key, [])
AstGet(tree, key) == IF key \in DOMAIN tree THEN tree[key] ELSE << >>

\* signals[column] = value: a scalar fills the column.
SignalColumn(df, v) == [ t \in Bars(df) |-> At(v, t) ]

\* What one call of strategy(df) left: the signals it returned or the exception
\* it raised, and the histories of the call.
CallRecord(df, st, entry, exit) ==
    [ df |-> df, err |-> st.err, entry |-> entry, exit |-> exit,
      computed |-> st.computed, returned |-> st.returned, cache |-> st.cache ]

\* Mutant: the cache outlives the call.
NewCache_Kept(previous) == previous

\* Line 149: cache = {}, whatever an earlier call left.
NewCache(previous) == { }

StrategyDone(df, entry_val, x) ==
    IF Failed(x) THEN CallRecord(df, x.st, << >>, << >>)
    ELSE CallRecord(df, x.st, SignalColumn(df, entry_val), SignalColumn(df, x.val))

StrategyExit(tree, df, e) ==
    IF Failed(e) THEN CallRecord(df, e.st, << >>, << >>)
    ELSE StrategyDone(df, e.val, EvalBlock(AstGet(tree, "exit"), df, e.st, "or"))

\* Lines 148-186: strategy(df) of generate_strategy(tree).
strategy(tree, df, previous) ==
    StrategyExit(tree, df,
        EvalBlock(AstGet(tree, "entry"), df,
                  EvalState(NewCache(previous), << >>, << >>, NoError), "and"))

\* ---- the evaluation runs: a rule, however obtained, called on price frames
\* Most calls of one strategy function.
MaxCalls == 2

\* A frame with the two columns the rules below read; column values are > 0.
Frame(c, v) == (<< "c", "l", "o", "s", "e" >> :> c) @@ (<< "v", "o", "l", "u", "m", "e" >> :> v)

Frames ==
    { Frame(<< 1, 2, 2, 3 >>, << 2, 2, 1, 3 >>),
      Frame(<< 3, 1, 2, 2 >>, << 1, 2, 2, 1 >>),
      Frame(<< 2, 2, 3, 1 >>, << 2, 1, 3, 3 >>),
      Frame(<< 2, 1 >>, << 1, 2 >>) }

\* Condition lists as the front-end gives them: supported indicators, one the
\* validator knows but the evaluator does not, one neither knows.
EvalCondPool ==
    { Cond(<< "c", "l", "o", "s", "e" >>, << ">" >>, << "s", "m", "a", "(", "c", "l", "o", "s", "e", ",", "2", ")" >>),
      Cond(<< "s", "m", "a", "(", "c", "l", "o", "s", "e", ",", "2", ")" >>, << "c", "r", "o", "s", "s", "_", "a", "b", "o", "v", "e" >>, << "v", "o", "l", "u", "m", "e" >>),
      Cond(<< "c", "l", "o", "s", "e" >>, << "c", "r", "o", "s", "s", "_", "b", "e", "l", "o", "w" >>, << "v", "o", "l", "u", "m", "e", ".", "s", "h", "i", "f", "t", "(", "1", ")" >>),
      Cond(<< "r", "s", "i", "(", "c", "l", "o", "s", "e", ",", "2", ")" >>, << ">", "=" >>, << "5", "0" >>),
      Cond(<< "e", "m", "a", "(", "v", "o", "l", "u", "m", "e", ",", "2", ")" >>, << "<" >>, << "m", "a", "x", "(", "c", "l", "o", "s", "e", ",", "2", ")" >>),
      Cond(<< "p", "c", "t", "_", "c", "h", "a", "n", "g", "e", "(", "c", "l", "o", "s", "e", ",", "1", ")" >>, << "!", "=" >>, << "0" >>),
      Cond(<< "c", "l", "o", "s", "e" >>, << ">" >>, << "m", "a", "c", "d", "(", "c", "l", "o", "s", "e", ",", "2", ")" >>),
      Cond(<< "S", "T", "O", "C", "H", "(", "v", "o", "l", "u", "m", "e", ",", "3", ")" >>, << "<" >>, << "2" >>),
      Cond(<< "v", "w", "a", "p", "(", "c", "l", "o", "s", "e", ",", "2", ")" >>, << ">" >>, << "1" >>) }

EvalJsons ==
    { [ entry |-> [ conditions |-> << c >>, operators |-> << >> ],
        exit  |-> [ conditions |-> x, operators |-> << >> ] ] :
        c \in EvalCondPool,
        x \in { << >>, << Cond(<< "c", "l", "o", "s", "e" >>, << "<" >>, << "m", "i", "n", "(", "c", "l", "o", "s", "e", ",", "2", ")" >>) >> } }

\* Rule texts written by hand.
HandTexts ==
    { << "E", "N", "T", "R", "Y", ":", " ", "c", "l", "o", "s", "e", " ", ">", " ", "s", "m", "a", "(", "c", "l", "o", "s", "e", ",", "2", ")", " ", "A", "N", "D", " ", "v", "o", "l", "u", "m", "e", " ", "<", " ", "s", "m", "a", "(", "c", "l", "o", "s", "e", ",", "2", ")", "\n", "E", "X", "I", "T", ":", " ", "s", "m", "a", "(", "c", "l", "o", "s", "e", ",", "2", ")", " ", "c", "r", "o", "s", "s", "_", "b", "e", "l", "o", "w", " ", "e", "m", "a", "(", "c", "l", "o", "s", "e", ",", "2", ")" >>,
      << "E", "N", "T", "R", "Y", ":", " ", "S", "M", "A", "(", "c", "l", "o", "s", "e", ",", "2", ")", " ", "C", "R", "O", "S", "S", "_", "A", "B", "O", "V", "E", " ", "c", "l", "o", "s", "e", ".", "s", "h", "i", "f", "t", "(", "1", ")", " ", "O", "R", " ", "r", "s", "i", "(", "c", "l", "o", "s", "e", ",", "2", ")", " ", ">", " ", "5", "0", "\n", "E", "X", "I", "T", ":", " ", "r", "s", "i", "(", "c", "l", "o", "s", "e", ",", "2", ")", " ", "<", " ", "5", "0" >>,
      << "E", "N", "T", "R", "Y", ":", " ", "c", "l", "o", "s", "e", " ", "r", "i", "s", "e", "_", "a", "b", "o", "v", "e", " ", "1" >>,
      << "E", "N", "T", "R", "Y", ":", " ", "c", "l", "o", "s", "e", " ", ">", " ", "1", "\n", "E", "X", "I", "T", ":", " ", "c", "l", "o", "s", "e", " ", "d", "r", "o", "p", "_", "b", "e", "l", "o", "w", " ", "v", "o", "l", "u", "m", "e" >>,
      << "E", "N", "T", "R", "Y", ":", " ", "F", "A", "L", "S", "E", "\n", "E", "X", "I", "T", ":", " ", "c", "l", "o", "s", "e", " ", "<", " ", "2" >>,
      << "E", "X", "I", "T", ":", " ", "c", "l", "o", "s", "e", " ", ">", "=", " ", "v", "o", "l", "u", "m", "e" >>,
      << "E", "N", "T", "R", "Y", ":", " ", "p", "c", "t", "_", "c", "h", "a", "n", "g", "e", "(", "c", "l", "o", "s", "e", ",", "1", ")", " ", ">", " ", "0", " ", "A", "N", "D", " ", "p", "c", "t", "(", "c", "h", "a", "n", "g", "e", "_", "c", "l", "o", "s", "e", ",", "1", ")", " ", ">", " ", "0" >>,
      << "E", "N", "T", "R", "Y", ":", " ", "2", " ", ">", " ", "1", "\n", "E", "X", "I", "T", ":", " ", "F", "A", "L", "S", "E" >>,
      << "E", "N", "T", "R", "Y", ":", " ", "o", "p", "e", "n", " ", ">", " ", "1" >>,
      << "E", "N", "T", "R", "Y", ":", " ", "c", "l", "o", "s", "e", " ", ">", " ", "1", " ", "O", "R", " ", "a", "t", "r", "(", "c", "l", "o", "s", "e", ",", "2", ")", " ", ">", " ", "1" >>,
      << >> }

\* Operands of hand-built trees: a Series, a scalar, and Series that start
\* with NaN.
OperandNodes ==
    { SeriesNode(<< "c", "l", "o", "s", "e" >>), SeriesNode(<< "v", "o", "l", "u", "m", "e" >>), NumberNode(R(2)),
      ShiftNode(<< "c", "l", "o", "s", "e" >>, R(1)),
      FunctionCallNode(<< "s", "m", "a" >>, << "c", "l", "o", "s", "e" >>, R(2)),
      FunctionCallNode(<< "m", "i", "n" >>, << "v", "o", "l", "u", "m", "e" >>, R(2)) }

\* Trees with one crossing each way over a pair of operands.
CrossTrees ==
    { [ entry |-> << BinaryOpNode(a, << "c", "r", "o", "s", "s", "_", "a", "b", "o", "v", "e" >>, b) >>,
        exit  |-> << BinaryOpNode(b, << "c", "r", "o", "s", "s", "_", "b", "e", "l", "o", "w" >>, a) >> ] :
        a \in OperandNodes, b \in OperandNodes }

RootNodes ==
    << BinaryOpNode(SeriesNode(<< "c", "l", "o", "s", "e" >>), << ">" >>, FunctionCallNode(<< "s", "m", "a" >>, << "c", "l", "o", "s", "e" >>, R(2))),
       BinaryOpNode(SeriesNode(<< "v", "o", "l", "u", "m", "e" >>), << "<", "=" >>, SeriesNode(<< "c", "l", "o", "s", "e" >>)),
       BinaryOpNode(FunctionCallNode(<< "s", "m", "a" >>, << "c", "l", "o", "s", "e" >>, R(2)), << "!", "=" >>, NumberNode(R(2))),
       BinaryOpNode(SeriesNode(<< "c", "l", "o", "s", "e" >>), << "c", "r", "o", "s", "s", "_", "a", "b", "o", "v", "e" >>, SeriesNode(<< "v", "o", "l", "u", "m", "e" >>)) >>

\* Trees with several roots in a block, and one without an "exit" key.
ForestTrees ==
    { [ entry |-> << RootNodes[1], RootNodes[2] >>, exit |-> << RootNodes[3], RootNodes[4] >> ],
      [ entry |-> << RootNodes[2], RootNodes[4], RootNodes[1] >>, exit |-> << RootNodes[1], RootNodes[2] >> ],
      [ entry |-> << RootNodes[1], RootNodes[3] >>, exit |-> << >> ],
      [ entry |-> << RootNodes[4], RootNodes[2] >> ] }

EvIdle == calls = << >>

\* No condition list: the rule did not come from the front-end.
NoJson == [ given |-> FALSE ]

\* A rule from the front-end, a rule text written by hand, or a tree built
\* directly, before generate_strategy.
EvalInit ==
    /\ calls = << >>
    /\ edited = NoEdit
    /\ \/ /\ parsed_json \in EvalJsons
          /\ dsl_text = << >>
          /\ ast = EmptyAst
          /\ dpc = "json"
       \/ /\ parsed_json = NoJson
          /\ dsl_text \in HandTexts
          /\ ast = EmptyAst
          /\ dpc = "dsl"
       \/ /\ parsed_json = NoJson
          /\ dsl_text = << >>
          /\ ast \in CrossTrees \cup ForestTrees
          /\ dpc = "ast"

\* main.py step 6: strategy_fn = generate_strategy(ast); one call
\* strategy_fn(df). The function can be called again on another frame.
CallStrategy ==
    /\ dpc = "ast"
    /\ Len(calls) < MaxCalls
    /\ \E df \in Frames :
         calls' = Append(calls,
                     strategy(ast, df, IF calls = << >> THEN { } ELSE Last(calls).cache))
    /\ UNCHANGED dslVars
    /\ UNCHANGED btVars

\* ---------------------------------------------------------- specifications
vars == << btVars, dslVars, evVars >>

\* One run of backtest().
Init == BtInit /\ DslIdle /\ EvIdle

Next == Bar \/ HandleOpenPosition \/ Metrics

Spec == Init /\ [][Next]_vars

\* One pass of a condition list through generate_dsl and parse_dsl.
InitDSL == DslInit /\ BtIdle /\ EvIdle

NextDSL == GenerateDsl \/ ParseDsl \/ ParseRecased

SpecDSL == InitDSL /\ [][NextDSL]_vars

\* A rule taken to a strategy function and called on price frames.
InitEval == EvalInit /\ BtIdle

NextEval == GenerateDsl \/ ParseDsl \/ CallStrategy

SpecEval == InitEval /\ [][NextEval]_vars

\* ------------------------------------------------------- claims: backtest
\* The loop's state before bar t (1-based): the initial state, or the state
\* logged after bar t-1.
Before(t) ==
    IF t = 1
    THEN [ position |-> Zero, entry_price |-> Zero, entry_date |-> None,
           cash |-> initial_cash, num_trades |-> 0 ]
    ELSE log[t - 1]

Flat(st) == st.position = Zero

Long(st) == RPos(st.position)

Finished == pc \in { "metrics", "done" }

\* C1: at most one position is open at a time. On a bar whose state is Long an
\* entry signal never opens or resizes a position (position_size, entry_price,
\* entry_date and cash are unchanged unless that bar's exit signal closes the
\* position), and on a bar whose state is Flat an exit signal records no trade
\* and, without an entry signal, changes nothing.
C1_SinglePosition ==
    \A t \in 1..Len(log) :
        /\ (signals[t].entry /\ Long(Before(t))) =>
              /\ ~signals[t].exit => log[t] = Before(t)
              /\ signals[t].exit => /\ Flat(log[t])
                                    /\ log[t].num_trades = Before(t).num_trades + 1
        /\ (signals[t].exit /\ Flat(Before(t))) =>
              /\ log[t].num_trades = Before(t).num_trades
              /\ ~signals[t].entry => log[t] = Before(t)

C1_Witness ==
    /\ \E t \in 1..Len(log) : signals[t].entry /\ ~signals[t].exit /\ Long(Before(t))
    /\ \E t \in 1..Len(log) : signals[t].exit /\ ~signals[t].entry /\ Flat(Before(t))

\* C2: on a bar where both signals are true, a Flat state opens the position
\* and records no trade; a Long state closes the position on that bar and
\* opens no new one on it.
C2_BothSignals ==
    \A t \in 1..Len(log) :
        (signals[t].entry /\ signals[t].exit) =>
            /\ Flat(Before(t)) =>
                  /\ Long(log[t])
                  /\ log[t].position =
                        PositionSize(Before(t).cash, R(close[t]), commission)
                  /\ log[t].entry_price = R(close[t])
                  /\ log[t].entry_date = t - 1
                  /\ log[t].cash = Zero
                  /\ log[t].num_trades = Before(t).num_trades
            /\ Long(Before(t)) =>
                  /\ Flat(log[t])
                  /\ log[t].num_trades = Before(t).num_trades + 1
                  /\ log[t].cash =
                        NetProceeds(Before(t).position, R(close[t]), commission)

C2_Witness ==
    /\ \E t \in 1..Len(log) : signals[t].entry /\ signals[t].exit /\ Flat(Before(t))
    /\ \E t \in 1..Len(log) : signals[t].entry /\ signals[t].exit /\ Long(Before(t))

HasStatus(tr, st) == "status" \in DOMAIN tr /\ tr.status = st

\* C3: if the state is Long after the last bar, exactly one more trade is
\* appended, with status open_at_end and exit_price the last close; the state
\* becomes Flat and the last equity entry is overwritten with the resulting
\* cash. If the state is Flat after the last bar, no trade has status
\* open_at_end. (Scenario: closes 100,105,110, entry at index 0, no exit.)
C3_ForcedClose ==
    Finished =>
        /\ Long(Last(log)) =>
              /\ Len(trades) = Last(log).num_trades + 1
              /\ HasStatus(Last(trades), "open_at_end")
              /\ Last(trades).exit_price = R(Last(close))
              /\ \A k \in 1..(Len(trades) - 1) : ~HasStatus(trades[k], "open_at_end")
              /\ position = Zero
              /\ cash = NetProceeds(Last(log).position, R(Last(close)), commission)
              /\ Last(equity_curve) = cash
        /\ Flat(Last(log)) =>
              /\ Len(trades) = Last(log).num_trades
              /\ \A k \in 1..Len(trades) : ~HasStatus(trades[k], "open_at_end")
        /\ ( /\ close = << 100, 105, 110 >>
             /\ signals[1].entry
             /\ \A t \in 1..3 : ~signals[t].exit ) =>
              /\ Len(trades) = 1
              /\ HasStatus(trades[1], "open_at_end")
              /\ trades[1].exit_price = R(110)

C3_Witness ==
    /\ Finished
    /\ Long(Last(log))
    /\ Len(trades) = 2
    /\ HasStatus(Last(trades), "open_at_end")

\* C4: every recorded trade carries a status field, 'closed' for a trade of
\* the exit-signal transition and 'open_at_end' for the end-of-run close.
C4_EveryTradeHasStatus ==
    \A k \in 1..Len(trades) :
        /\ "status" \in DOMAIN trades[k]
        /\ trades[k].status \in { "closed", "open_at_end" }

\* C5: one equity value per bar, in bar order; the value of bar t, taken after
\* the bar's transition, is cash if Flat and position_size * close[t] if Long,
\* except the last entry once a forced close has overwritten it.
C5_EquityPerBar ==
    /\ Len(equity_curve) = i
    /\ Finished => Len(equity_curve) = Len(close)
    /\ \A t \in 1..Len(log) :
          (~(Finished /\ t = Len(close) /\ Long(log[t]))) =>
              equity_curve[t] =
                  IF Flat(log[t]) THEN log[t].cash
                  ELSE RMul(log[t].position, R(close[t]))

C5_Witness ==
    /\ pc = "done"
    /\ Len(equity_curve) = 3
    /\ Long(log[1])
    /\ Flat(log[2])
    /\ Long(log[3])
    /\ equity_curve[1] # equity_curve[2]

\* C6: with no entry signal on any bar (the exit signal false throughout, or
\* true on some bars), the run returns num_trades = 0, an equity curve equal
\* to initial_cash on every bar, total_return = 0 and max_drawdown = 0.
C6_NoSignals ==
    (pc = "done" /\ \A t \in 1..Len(signals) : ~signals[t].entry) =>
        /\ result.num_trades = 0
        /\ Len(result.equity_curve) = Len(close)
        /\ \A t \in 1..Len(close) : result.equity_curve[t] = initial_cash
        /\ result.total_return = Zero
        /\ result.max_drawdown = Zero

C6_Witness ==
    /\ pc = "done"
    /\ Len(signals) = 3
    /\ \A t \in 1..3 : ~signals[t].entry
    /\ signals[2].exit
    /\ result.num_trades = 0

\* C7: with commission = 0, a run that makes exactly one trade, entered at
\* close p0 and left at close p1, has position_size = initial_cash / p0,
\* profit = position_size * (p1 - p0), return_pct = (p1 / p0 - 1) * 100 and
\* total_return = return_pct. (Scenario: closes 100,110,105,120, entry at
\* index 0, exit at index 3: 1000, 20000, 20, 20.)
C7_SingleTrade ==
    (pc = "done" /\ commission = Zero /\ result.num_trades = 1) =>
        LET tr == result.trades[1]
            p0 == R(close[tr.entry_date + 1])
            p1 == R(close[tr.exit_date + 1])
        IN  /\ tr.entry_price = p0
            /\ tr.exit_price = p1
            /\ tr.position_size = RDiv(initial_cash, p0)
            /\ tr.profit = RMul(tr.position_size, RSub(p1, p0))
            /\ tr.return_pct = RMul(RSub(RDiv(p1, p0), R(1)), R(100))
            /\ result.total_return = tr.return_pct
            /\ ( /\ close = << 100, 110, 105, 120 >>
                 /\ tr.entry_date = 0
                 /\ tr.exit_date = 3 ) =>
                  /\ tr.position_size = R(1000)
                  /\ tr.profit = R(20000)
                  /\ tr.return_pct = R(20)
                  /\ result.total_return = R(20)

C7_Witness ==
    /\ pc = "done"
    /\ commission = Zero
    /\ close = << 100, 110, 105, 120 >>
    /\ result.num_trades = 1
    /\ signals[1].entry
    /\ \A t \in 1..3 : ~signals[t].exit
    /\ signals[4].exit
    /\ result.trades[1].profit = R(20000)

\* ------------------------------------------------- claims: text and parser
\* What a structured operand denotes, read off the operand forms that
\* is_valid_operand admits: a field, a number, name(field[,N]), field.shift(N),
\* min/max(field,N).
StripSpaces(s) == SelectSeq(s, LAMBDA c : c \notin SpaceChars)

FirstIndex(s, c) == CHOOSE k \in DOMAIN s : s[k] = c /\ \A j \in 1..(k - 1) : s[j] # c

\* The pieces of s between the separators c.
RECURSIVE SplitOn(_, _)
SplitOn(s, c) ==
    IF \E k \in DOMAIN s : s[k] = c
    THEN << SubSeq(s, 1, FirstIndex(s, c) - 1) >>
            \o SplitOn(SubSeq(s, FirstIndex(s, c) + 1, Len(s)), c)
    ELSE << s >>

\* The arguments between the parentheses of name(...) or field.shift(...).
CallArgs(y) == SplitOn(SubSeq(y, FirstIndex(y, "(") + 1, Len(y) - 1), ",")

SignedValue(y) ==
    IF y[1] = "-" THEN RNeg(NumberValue(Tail(y)))
    ELSE IF y[1] = "+" THEN NumberValue(Tail(y))
    ELSE NumberValue(y)

DirectOperand(x) ==
    LET y == StripSpaces(x)
    IN  IF x \in VALID_FIELDS THEN [ type |-> "series", value |-> x ]
        ELSE IF is_number(x) THEN [ type |-> "number", value |-> SignedValue(y) ]
        ELSE IF is_shift(x)
        THEN [ type |-> "shift", field |-> SubSeq(y, 1, FirstIndex(y, ".") - 1),
               periods |-> DecValue(CallArgs(y)[1]) ]
        ELSE IF is_minmax(x)
        THEN [ type |-> IF SubSeq(y, 1, 3) = << "m", "i", "n" >> THEN "min" ELSE "max",
               field |-> CallArgs(y)[1], window |-> DecValue(CallArgs(y)[2]) ]
        ELSE [ type |-> "indicator",
               name |-> LowerStr(SubSeq(y, 1, FirstIndex(y, "(") - 1)),
               params |-> [ k \in DOMAIN CallArgs(y) |->
                              IF k = 1 THEN CallArgs(y)[1] ELSE R(DecValue(CallArgs(y)[k])) ] ]

DirectCondition(cond) ==
    [ type |-> "binary_op", left |-> DirectOperand(cond.left), op |-> cond.operator,
      right |-> DirectOperand(cond.right) ]

DirectConditions(block) ==
    [ k \in DOMAIN block.conditions |-> DirectCondition(block.conditions[k]) ]

\* The connector between condition k and k+1: the list's, AND where it is short.
ExpectedLogics(block) ==
    [ k \in 1..(Len(block.conditions) - 1) |->
        IF k <= Len(block.operators) THEN UpperStr(block.operators[k]) ELSE << "A", "N", "D" >> ]

IsLogicNode(n) == n.type = "binary_op" /\ UpperStr(n.op) \in VALID_LOGICAL

\* The conditions of a tree, and its connectors, from left to right.
RECURSIVE Leaves(_)
Leaves(n) == IF IsLogicNode(n) THEN Leaves(n.left) \o Leaves(n.right) ELSE << n >>

RECURSIVE Logics(_)
Logics(n) ==
    IF IsLogicNode(n) THEN Logics(n.left) \o << n.op >> \o Logics(n.right) ELSE << >>

BlockMatches(roots, block) ==
    IF block.conditions = << >> THEN roots = << >>
    ELSE /\ Len(roots) = 1
         /\ Leaves(roots[1]) = DirectConditions(block)
         /\ Logics(roots[1]) = ExpectedLogics(block)

Generated == dpc \in { "ast", "reparsed", "SyntaxError" }

\* C8: for every condition list validate_parsed_json accepts, parse_dsl accepts
\* the text generate_dsl produced, and the AST holds, for entry and for exit,
\* exactly the list's conditions (same operands and operator, same order)
\* joined by the list's connectors.
C8_RoundTrip ==
    Generated =>
        /\ dpc # "SyntaxError"
        /\ BlockMatches(ast.entry, parsed_json.entry)
        /\ BlockMatches(ast.exit, parsed_json.exit)

\* C9: a chain of three or more conditions c1 L1 c2 L2 c3 ... is combined from
\* left to right: the root has the last connector, its right child is the last
\* condition and its left child combines all the earlier conditions.
C9_LeftToRight ==
    (dpc = "ast" /\ Len(parsed_json.entry.conditions) >= 3) =>
        LET root == ast.entry[1]
            n    == Len(parsed_json.entry.conditions)
        IN  /\ root.op = ExpectedLogics(parsed_json.entry)[n - 1]
            /\ root.right = DirectCondition(parsed_json.entry.conditions[n])
            /\ Leaves(root.left) =
                  SubSeq(DirectConditions(parsed_json.entry), 1, n - 1)

\* Every connector node has a condition as its left child.
RECURSIVE RightNested(_)
RightNested(n) == IsLogicNode(n) => (~IsLogicNode(n.left) /\ RightNested(n.right))

\* C9 (amended): the chain is combined from the right: the root has the FIRST
\* connector, its left child is the first condition and its right child
\* combines all the later conditions in the same way, so 'a AND b OR c' is
\* built as (a AND (b OR c)).
C9_RightNested ==
    (dpc = "ast" /\ Len(parsed_json.entry.conditions) >= 3) =>
        LET root == ast.entry[1]
            n    == Len(parsed_json.entry.conditions)
        IN  /\ Len(ast.entry) = 1
            /\ root.op = ExpectedLogics(parsed_json.entry)[1]
            /\ root.left = DirectCondition(parsed_json.entry.conditions[1])
            /\ Leaves(root.right) = SubSeq(DirectConditions(parsed_json.entry), 2, n)
            /\ Logics(root.right) = SubSeq(ExpectedLogics(parsed_json.entry), 2, n - 1)
            /\ RightNested(root)

C9_Witness ==
    /\ dpc = "ast"
    /\ Len(parsed_json.entry.conditions) = 3
    /\ ExpectedLogics(parsed_json.entry) = << << "A", "N", "D" >>, << "O", "R" >> >>
    /\ ast.entry[1].op = << "A", "N", "D" >>
    /\ ast.entry[1].left.op = << ">" >>
    /\ ast.entry[1].right.op = << "O", "R" >>

\* A tree with every operator in lower case.
RECURSIVE LowerOps(_)
LowerOps(n) ==
    IF n.type = "binary_op"
    THEN [ type |-> "binary_op", left |-> LowerOps(n.left), op |-> LowerStr(n.op),
           right |-> LowerOps(n.right) ]
    ELSE n

LowerOpsAll(roots) == [ k \in DOMAIN roots |-> LowerOps(roots[k]) ]

\* C10: the keywords AND, OR, CROSS_ABOVE and CROSS_BELOW are accepted in any
\* letter case: a text that parses still parses with a keyword replaced by a
\* case variant, and gives an AST with the same operators.
C10_KeywordsAnyCase ==
    dpc = "reparsed" =>
        /\ edited.ok
        /\ LowerOpsAll(edited.ast.entry) = LowerOpsAll(ast.entry)
        /\ LowerOpsAll(edited.ast.exit) = LowerOpsAll(ast.exit)

\* ---------------------------------------------- claims: metrics and ledger
HasWinner(ts) == \E k \in DOMAIN ts : RPos(ts[k].profit)

\* C15: in the returned metrics, profit_factor is gross_profit / gross_loss
\* when gross_loss > 0, is +infinity when gross_loss = 0 and some trade has a
\* positive profit, is 0 together with the other trade statistics when there
\* is no trade, and is +infinity only when there is a winning trade.
C15_ProfitFactor ==
    pc = "done" =>
        LET st == result.stats
        IN  /\ RPos(st.gross_loss) =>
                 st.profit_factor = RDiv(st.gross_profit, st.gross_loss)
            /\ (st.gross_loss = Zero /\ HasWinner(result.trades)) =>
                 st.profit_factor = Inf
            /\ result.num_trades = 0 =>
                 /\ st.profit_factor = Zero
                 /\ st.win_rate = Zero
                 /\ st.avg_trade_return = Zero
                 /\ st.avg_winning_trade = Zero
                 /\ st.avg_losing_trade = Zero
                 /\ st.gross_profit = Zero
                 /\ st.gross_loss = Zero
            /\ st.profit_factor = Inf => HasWinner(result.trades)

\* Bars (1-based) on which a position was opened, resp. closed, by the loop.
Openings == { t \in 1..Len(log) : Flat(Before(t)) /\ Long(log[t]) }

Closings == { t \in 1..Len(log) : Long(Before(t)) /\ Flat(log[t]) }

\* C17: every position opened during a run is closed exactly once, by an exit
\* signal on a strictly later bar or by the end-of-run close: openings and
\* closings alternate starting with an opening, a trade is recorded exactly on
\* a closing, each trade's entry bar is strictly after the previous trade's
\* exit bar, num_trades is the number of opening bars, and the run ends Flat.
C17_OpenedClosedOnce ==
    /\ \A t \in 1..Len(log) :
          log[t].num_trades =
              Before(t).num_trades + (IF t \in Closings THEN 1 ELSE 0)
    /\ \A c \in Closings : signals[c].exit /\ \E o \in Openings : o < c
    /\ \A o1 \in Openings, o2 \in Openings :
          o1 < o2 => \E c \in Closings : o1 < c /\ c < o2
    /\ \A c1 \in Closings, c2 \in Closings :
          c1 < c2 => \E o \in Openings : c1 < o /\ o < c2
    /\ \A k \in 1..Len(trades) :
          /\ trades[k].entry_date + 1 \in Openings
          /\ IF HasStatus(trades[k], "open_at_end")
             THEN /\ k = Len(trades)
                  /\ trades[k].exit_date = Len(close) - 1
                  /\ trades[k].exit_date >= trades[k].entry_date
             ELSE /\ trades[k].exit_date + 1 \in Closings
                  /\ trades[k].exit_date > trades[k].entry_date
          /\ k > 1 => trades[k].entry_date > trades[k - 1].exit_date
    /\ Finished =>
          /\ position = Zero
          /\ Len(trades) = Cardinality(Openings)
          /\ \A o \in Openings : \E k \in 1..Len(trades) : trades[k].entry_date + 1 = o

C17_Witness ==
    /\ pc = "done"
    /\ Len(trades) = 2
    /\ ~HasStatus(trades[1], "open_at_end")
    /\ HasStatus(trades[2], "open_at_end")
    /\ Cardinality(Openings) = 2

\* C18: after every bar's transition, and after the end-of-run close, exactly
\* one of cash and position is non-zero: a positive position goes with zero
\* cash, a zero position with positive cash, and position is never negative.
C18_CashXorPosition ==
    /\ \A t \in 1..Len(log) :
          /\ log[t].position[1] >= 0
          /\ RPos(log[t].position) => log[t].cash = Zero
          /\ log[t].position = Zero => RPos(log[t].cash)
    /\ Finished => position = Zero /\ RPos(cash)

C18_Witness ==
    /\ Finished
    /\ \E t \in 1..Len(log) : Long(log[t]) /\ log[t].cash = Zero
    /\ \E t \in 1..Len(log) : Long(Before(t)) /\ Flat(log[t]) /\ RPos(log[t].cash)
    /\ commission # Zero

\* The commission paid on entering trade tr: the cash invested less the value
\* of the position bought.
EntryCommission(tr) == RMul(commission, RMul(tr.position_size, tr.entry_price))

\* C19 (as stated): the profits of the recorded trades sum to
\* final_cash - initial_cash, for every commission rate in [0, 1).
C19_ProfitsSumToCashChange ==
    pc = "done" =>
        RSum(Profits(result.trades)) = RSub(result.final_cash, result.initial_cash)

\* C19 (amended): final_cash - initial_cash is the sum over the recorded trades
\* of profit less the entry commission commission * position_size * entry_price,
\* so the profits sum to the cash change when the commission rate is 0.
C19_LedgerReconciles ==
    pc = "done" =>
        /\ RSub(result.final_cash, result.initial_cash) =
              RSum([ k \in DOMAIN result.trades |->
                        RSub(result.trades[k].profit, EntryCommission(result.trades[k])) ])
        /\ commission = Zero =>
              RSum(Profits(result.trades)) = RSub(result.final_cash, result.initial_cash)

C19_Witness ==
    /\ pc = "done"
    /\ commission # Zero
    /\ Len(result.trades) = 2
    /\ RSum(Profits(result.trades)) # RSub(result.final_cash, result.initial_cash)

\* --------------------------------------------------- claims: the evaluator
FreshState == EvalState({ }, << >>, << >>, NoError)

Succeeded(call) == call.err.type = "None"

\* C11: each call of the strategy function starts with an empty cache; within
\* the call no (name, field, window) combination is computed twice, however
\* many nodes of the entry and exit trees reference it; and every value an
\* indicator node returns was computed in this call from this call's frame,
\* never taken over from an earlier call.
C11_CachePerCall ==
    \A k \in 1..Len(calls) :
        /\ \A m \in DOMAIN calls[k].computed, n \in DOMAIN calls[k].computed :
              calls[k].computed[m] = calls[k].computed[n] => m = n
        /\ { item.key : item \in calls[k].cache } =
              { CacheKey(c[1], c[2], c[3]) : c \in Range(calls[k].computed) }
        /\ \A r \in Range(calls[k].returned) :
              \E c \in Range(calls[k].computed) :
                 /\ CacheKey(c[1], c[2], c[3]) = CacheKey(r.name, r.source, r.window)
                 /\ r.value = ComputeIndicator(c[1], Column(calls[k].df, c[2]), c[3])

C11_Witness ==
    /\ Len(calls) = 2
    /\ Succeeded(calls[1]) /\ Succeeded(calls[2])
    /\ calls[1].df # calls[2].df
    /\ Len(calls[1].computed) = 2
    /\ Len(calls[2].returned) > Len(calls[2].computed)
    /\ calls[1].returned # calls[2].returned

\* A tree whose entry is CROSS_ABOVE(a, b) and whose exit is CROSS_BELOW(b, a).
IsCrossPair(tree) ==
    /\ Len(AstGet(tree, "entry")) = 1
    /\ Len(AstGet(tree, "exit")) = 1
    /\ tree.entry[1].type = "binary_op"
    /\ tree.exit[1].type = "binary_op"
    /\ LowerStr(tree.entry[1].op) = << "c", "r", "o", "s", "s", "_", "a", "b", "o", "v", "e" >>
    /\ LowerStr(tree.exit[1].op) = << "c", "r", "o", "s", "s", "_", "b", "e", "l", "o", "w" >>
    /\ tree.exit[1].left = tree.entry[1].right
    /\ tree.exit[1].right = tree.entry[1].left

\* C12: for all operands a and b, Series or scalars, CROSS_ABOVE(a, b) is true
\* on a bar exactly when CROSS_BELOW(b, a) is, the first bar and bars whose
\* previous value is NaN included.
C12_CrossSymmetry ==
    (dpc = "ast" /\ IsCrossPair(ast)) =>
        \A k \in 1..Len(calls) :
            /\ Succeeded(calls[k])
            /\ calls[k].entry = calls[k].exit

C12_Witness ==
    /\ dpc = "ast"
    /\ IsCrossPair(ast)
    /\ ast.entry[1].left.type = "indicator"
    /\ ast.entry[1].right.type = "series"
    /\ Len(calls) >= 1
    /\ \E t \in DOMAIN calls[1].entry : calls[1].entry[t] /\ calls[1].exit[t]

\* The nodes of a tree, and of all the roots of an AST.
RECURSIVE NodesOf(_)
NodesOf(n) ==
    IF n.type = "binary_op" THEN { n } \cup NodesOf(n.left) \cup NodesOf(n.right) ELSE { n }

TreeNodes(tree) ==
    UNION { NodesOf(AstGet(tree, "entry")[j]) : j \in DOMAIN AstGet(tree, "entry") }
    \cup UNION { NodesOf(AstGet(tree, "exit")[j]) : j \in DOMAIN AstGet(tree, "exit") }

FromFrontEnd == "entry" \in DOMAIN parsed_json

\* The name of an operand written name(field,N).
CallName(o) == LowerStr(SubSeq(o, 1, FirstIndex(o, "(") - 1))

IsIndicatorCall(o) ==
    /\ "(" \in Range(o)
    /\ "." \notin Range(o)
    /\ CallName(o) \notin { << "m", "i", "n" >>, << "m", "a", "x" >> }

\* The operands of the entry condition that name an indicator the evaluator
\* does not compute.
UnknownIndicatorOperands ==
    { o \in { parsed_json.entry.conditions[1].left, parsed_json.entry.conditions[1].right } :
        IsIndicatorCall(o) /\ CallName(o) \notin SupportedIndicators }

\* The rule passed validation and parsing with an indicator node for `name`,
\* and every call of its strategy raised "Unsupported indicator: name" and
\* returned no signals.
FailsOnlyAtEvaluation(name) ==
    /\ dpc \notin { "ValueError", "SyntaxError" }
    /\ dpc = "ast" =>
          /\ \E n \in TreeNodes(ast) : n.type = "indicator" /\ n.name = name
          /\ \A k \in 1..Len(calls) :
                /\ calls[k].err = ValueError("Unsupported indicator", name)
                /\ calls[k].entry = << >>
                /\ calls[k].exit = << >>

\* C13 (as stated): an operand name(field,N) whose name is outside
\* {sma, ema, rsi, pct_change} is accepted by validate_parsed_json and by
\* parse_dsl, which builds an indicator node for it, and fails only when
\* evaluated, with "Unsupported indicator" naming it and no signal produced.
C13_AnyNameFailsAtEvaluation ==
    FromFrontEnd => \A o \in UnknownIndicatorOperands : FailsOnlyAtEvaluation(CallName(o))

\* C13 (amended): that holds for the names macd, bbands, atr, adx and stoch,
\* in any letter case; an operand with any other name is rejected by
\* validate_parsed_json, so generate_dsl raises ValueError and nothing is
\* parsed or evaluated.
C13_ValidatorNamesFailAtEvaluation ==
    FromFrontEnd =>
        \A o \in UnknownIndicatorOperands :
            IF CallName(o) \in IndicatorNames
            THEN FailsOnlyAtEvaluation(CallName(o))
            ELSE dpc \in { "json", "ValueError" }

C13_Witness ==
    /\ FromFrontEnd
    /\ \E o \in UnknownIndicatorOperands : CallName(o) = << "s", "t", "o", "c", "h" >>
    /\ dpc = "ast"
    /\ Len(calls) = 2
    /\ calls[2].err.msg = "Unsupported indicator"

\* Whether root j of a block is true on bar t, evaluated on its own.
RootTrue(roots, j, df, t) == At(generate_expression(roots[j], df, FreshState).val, t)

\* C14: the entry signal on bar t is true iff every root of the AST's entry
\* list is true on t, the exit signal iff at least one root of the exit list
\* is; an empty or missing list gives a signal that is false on every bar.
C14_EntryAllExitAny ==
    dpc = "ast" =>
        \A k \in 1..Len(calls) :
            Succeeded(calls[k]) =>
                /\ DOMAIN calls[k].entry = Bars(calls[k].df)
                /\ DOMAIN calls[k].exit = Bars(calls[k].df)
                /\ \A t \in Bars(calls[k].df) :
                      /\ calls[k].entry[t] <=>
                            /\ AstGet(ast, "entry") # << >>
                            /\ \A j \in DOMAIN AstGet(ast, "entry") :
                                  RootTrue(AstGet(ast, "entry"), j, calls[k].df, t)
                      /\ calls[k].exit[t] <=>
                            \E j \in DOMAIN AstGet(ast, "exit") :
                                  RootTrue(AstGet(ast, "exit"), j, calls[k].df, t)

C14_Witness ==
    /\ dpc = "ast"
    /\ Len(AstGet(ast, "entry")) >= 2
    /\ Len(AstGet(ast, "exit")) >= 2
    /\ Len(calls) >= 1
    /\ Succeeded(calls[1])
    /\ \E t \in DOMAIN calls[1].entry : calls[1].entry[t]
    /\ \E t \in DOMAIN calls[1].entry :
          ~calls[1].entry[t] /\ RootTrue(ast.entry, 2, calls[1].df, t)
    /\ \E t \in DOMAIN calls[1].exit :
          calls[1].exit[t] /\ ~RootTrue(ast.exit, 1, calls[1].df, t)
    /\ \E t \in DOMAIN calls[1].exit : ~calls[1].exit[t]

\* The operators of the spec's BinaryOp node, in lower case.
NodeOperators ==
    { << "a", "n", "d" >>, << "o", "r" >>, << ">" >>, << "<" >>, << ">", "=" >>, << "<", "=" >>, << "=", "=" >>, << "!", "=" >>,
      << "c", "r", "o", "s", "s", "_", "a", "b", "o", "v", "e" >>, << "c", "r", "o", "s", "s", "_", "b", "e", "l", "o", "w" >> }

\* C16: every binary_op node of an AST returned by parse_dsl has, ignoring
\* case, one of the operators AND, OR, >, <, >=, <=, ==, !=, CROSS_ABOVE,
\* CROSS_BELOW, so evaluating a parsed rule text never fails with
\* "Unsupported operator".
C16_ParsedOperatorsSupported ==
    (dpc = "ast" /\ dsl_text # << >>) =>
        /\ \A n \in TreeNodes(ast) :
              n.type = "binary_op" => LowerStr(n.op) \in NodeOperators
        /\ \A k \in 1..Len(calls) : calls[k].err.msg # "Unsupported operator"

====
